---- MODULE Spec2Model ----
(***************************************************************************)
(* Order-execution and position-lifecycle state machine of the ATR/ORB     *)
(* trading scripts: src/ATR-ORB.py (Spec, SpecEntry, SpecStop, SpecMonitor) *)
(* and the monitoring of src/TQQQ-ATR-ORB.py (SpecTQQQ).                   *)
(*                                                                         *)
(* Prices are integers in units of 0.001 dollar (PriceScale units per      *)
(* dollar); a rational price is a pair numerator/denominator.              *)
(* Time is counted in whole seconds slept; the code between two sleeps     *)
(* takes a positive time shorter than a second, so "elapsed > T" after n   *)
(* slept seconds is "n >= T" and "elapsed >= T" is "n >= T" as well.       *)
(* The broker is a separate agent: it acknowledges, fills, rejects and     *)
(* cancels orders on its own schedule; the script observes an order's      *)
(* status only after a sleep.  A broker order keeps its life-cycle state   *)
(* `st` and, while it is live, the number `creq` of cancel calls it has    *)
(* received and whether one of them was made after the latest placeOrder   *)
(* (`asked`); the status string and the average fill price the script reads *)
(* from a handle are drawn from what the venue can report for that state.  *)
(***************************************************************************)
EXTENDS Integers, Sequences, FiniteSets, TLC

(* ---------------------------- program constants ------------------------ *)
PriceScale == 10 * 10 * 10
ACCOUNT_SIZE == 25000
LEVERAGE == 4
RISK_PCT_DEN == 100
max_attempts == 40
RepriceAfterSeconds == 20
MaxPriceAdjustments == 2
StopPollAttempts == 10
StopRetryFrom == 8
ClosePollAttempts == 40
EOD_HOUR == 15
EOD_MINUTE_START == 50
update_interval == 60
WakeSeconds == 5
DefaultTick == 10
StopNudge == 10
ATR_PERIOD == 14
MinDailyBars == 14
MaxBarAge == 300

(* ------------------------------- bounds -------------------------------- *)
MaxHoldMinutes == 1
MaxWakes == 13

(* ------------------------------ input sets ----------------------------- *)
TickSizes == {10}
BarCloses == {2000000}
BarOpens == {1999000, 2000000, 2001000}
ATRValues == {20000}
ExitStrategies == {"EOD", "MAX_DURATION"}
\* values of exitStrategy in config.ini (the fallback of a missing key is "EOD")
RawExitStrategies == {"EOD", " max_duration ; minutes", "TRAILING"}
\* what the history requests return: the number of 5-minute bars, the age
\* in seconds of the newest one against the expected candle, and the daily
\* bars, each given by its true range
FiveMinBarCounts == {0, 6}
BarAges == {0, 301}
DailyHistories == {[i \in 1..n |-> tr] : n \in {13, 14}, tr \in {0, 20000}}
Histories == [bars5 : FiveMinBarCounts, age : BarAges, daily : DailyHistories]
HoldMinutes == 1..MaxHoldMinutes
\* wall-clock second of the day at which monitoring starts: 15:49:50
\* US/Eastern, and under the EOD policy also 16:00:00
MonitorStartTimes(strategy) == IF strategy = "EOD" THEN {56990, 57600} ELSE {56990}
\* offsets of a market fill from the entry price
ExitOffsets == {-1000, 0, 1000}

DoneStates == {"Filled", "Cancelled", "ApiCancelled"}
\* status strings the venue can report for a broker order in state st
Reported(st) == IF st = "Cancelled" THEN {"Cancelled", "ApiCancelled"} ELSE {st}
LiveStates == {"PendingSubmit", "PreSubmitted", "Submitted"}
TerminalFailure_NoInactive == {"Cancelled", "ApiCancelled"}
\* the statuses on which place_trade returns (None, None) at once
TerminalFailure == {"Cancelled", "ApiCancelled", "Inactive"}

(* ------------------------------ arithmetic ----------------------------- *)
Max(a, b) == IF a >= b THEN a ELSE b
Min(a, b) == IF a <= b THEN a ELSE b
Abs(a) == IF a >= 0 THEN a ELSE -a

\* Python round(): nearest integer to n/d, ties to the even integer (d > 0)
RoundHalfEven(n, d) ==
    LET q == n \div d
        r == n % d
    IN  IF 2 * r < d THEN q
        ELSE IF 2 * r > d THEN q + 1
        ELSE IF q % 2 = 0 THEN q ELSE q + 1

\* variant: always two decimals, whatever the tick
format_price_Cents(num, den, min_tick) == RoundHalfEven(num, den * DefaultTick) * DefaultTick
\* format_price(price) for price = num/den and global_min_tick = min_tick
format_price(num, den, min_tick) ==
    LET effective_tick_size == IF min_tick > 0 THEN min_tick ELSE DefaultTick
    IN  RoundHalfEven(num, den * effective_tick_size) * effective_tick_size

\* round(x, 2) of an amount in 0.001-dollar units
Round2(x) == RoundHalfEven(x, PriceScale \div 100) * (PriceScale \div 100)

\* variant: the same side as the entry
Opposite_Same(a) == a
\* 'SELL' if action == 'BUY' else 'BUY'
Opposite(a) == IF a = "BUY" THEN "SELL" ELSE "BUY"
SignedQty(a, q) == IF a = "BUY" THEN q ELSE -q

(* -------------------------------- state -------------------------------- *)
VARIABLES
    pc,                      \* position of the script
    orders,                  \* broker: every order of the run, in submission order
    pos,                     \* broker: signed holding in the instrument
    bar,                     \* signal candle [open, close]
    history,                 \* what the history requests of the startup return
    ATR, global_min_tick,
    raw_exit_strategy_from_config,
    trade_exit_strategy, trade_max_hold_duration_minutes,
    action, qty,             \* signal direction and sized quantity
    stop_price_reference,    \* reference stop of the signal
    limit_price, trade, attempt, elapsed, price_adjustment_count,
    fill_price, ptExit,      \* place_trade result and the way it returned
    stop_price, sl_price, sl_trade, new_trade, sl_i, stoploss_success, slExit,
    now, start_time, last_update_time, wakes, posQueries, monExit,
    current_market_price,    \* price read by the latest status refresh (0: none)
    stop_warning,            \* the latest wake of the monitor logged the price warning
    exit_reason, cl_trade, cl_attempt, clExit,
    trades_record,
    csv_file,                \* rows of reports/trades_<symbol>_history.csv
    done_cancels,            \* cancel calls of cancel_all_orders for orders no longer live
    cleanupExit

execVars == <<limit_price, trade, attempt, elapsed, price_adjustment_count, fill_price, ptExit>>
stopVars == <<stop_price, sl_price, sl_trade, new_trade, sl_i, stoploss_success, slExit>>
monVars == <<now, start_time, last_update_time, wakes, posQueries, monExit>>
mktVars == <<current_market_price, stop_warning>>
exitVars == <<exit_reason, cl_trade, cl_attempt, clExit>>
cfgVars == <<history, bar, ATR, global_min_tick, raw_exit_strategy_from_config,
             trade_exit_strategy, trade_max_hold_duration_minutes>>
sigVars == <<action, qty, stop_price_reference>>
brokerVars == <<orders, pos>>

vars == <<pc, orders, pos, history, bar, ATR, global_min_tick,
          raw_exit_strategy_from_config, trade_exit_strategy,
          trade_max_hold_duration_minutes, action, qty, stop_price_reference, limit_price, trade, attempt,
          elapsed, price_adjustment_count, fill_price, ptExit, stop_price, sl_price,
          sl_trade, new_trade, sl_i, stoploss_success, slExit, now, start_time,
          last_update_time, wakes, posQueries, monExit, exit_reason, cl_trade,
          cl_attempt, clExit, trades_record, cleanupExit, csv_file,
          current_market_price, stop_warning, done_cancels>>

(* ------------------------------ order book ----------------------------- *)
Order(kind, act, quantity, price) ==
    [kind |-> kind, act |-> act, qty |-> quantity, price |-> price,
     st |-> "PendingSubmit", creq |-> 0, asked |-> FALSE]

IsLive(o) == o.st \in LiveStates
LiveOf(kind) == {i \in DOMAIN orders : orders[i].kind = kind /\ IsLive(orders[i])}
LiveOrders == {i \in DOMAIN orders : IsLive(orders[i])}

\* ib.cancelOrder on every order of the set S (the venue drops a cancel for
\* an order that is no longer live)
CancelEach(ords, S) ==
    [i \in DOMAIN ords |->
        IF i \in S /\ IsLive(ords[i])
        THEN [ords[i] EXCEPT !.creq = @ + 1, !.asked = TRUE]
        ELSE ords[i]]

\* ib.placeOrder
PlaceOrder(ords, o) ==
    Append([i \in DOMAIN ords |-> [ords[i] EXCEPT !.asked = FALSE]], o)

RECURSIVE SumSeq(_)
SumSeq(q) == IF q = <<>> THEN 0 ELSE Head(q) + SumSeq(Tail(q))

\* calculate_atr: the rolling mean of the last `period` true ranges; NaN while
\* the window has fewer than `period` samples
calculate_atr(trs) ==
    IF Len(trs) < ATR_PERIOD
    THEN [nan |-> TRUE, value |-> 0]
    ELSE [nan |-> FALSE,
          value |-> SumSeq(SubSeq(trs, Len(trs) - ATR_PERIOD + 1, Len(trs)))
                       \div ATR_PERIOD]

\* variant: a zero ATR is let through
FatalData_ZeroATR(h) ==
    \/ h.bars5 < 1
    \/ h.age > MaxBarAge
    \/ Len(h.daily) < MinDailyBars
    \/ calculate_atr(h.daily).nan
    \/ calculate_atr(h.daily).value < 0
\* the startup checks of main that end the run with exit(1)
FatalData(h) ==
    \/ h.bars5 < 1
    \/ h.age > MaxBarAge
    \/ Len(h.daily) < MinDailyBars
    \/ calculate_atr(h.daily).nan
    \/ calculate_atr(h.daily).value <= 0

\* raw_exit_strategy_from_config.split(';')[0].strip().upper(), for the
\* values of RawExitStrategies
processed_strategy_token(raw) ==
    CASE raw = "EOD" -> "EOD"
      [] raw = " max_duration ; minutes" -> "MAX_DURATION"
      [] raw = "TRAILING" -> "TRAILING"

\* trade_exit_strategy: the token when it is EOD or MAX_DURATION, else EOD
ExitStrategyOf(raw) ==
    IF processed_strategy_token(raw) \in {"EOD", "MAX_DURATION"}
    THEN processed_strategy_token(raw)
    ELSE "EOD"

\* configuration and signal candle of one run that passed the startup checks
Configured ==
    /\ bar \in [open : BarOpens, close : BarCloses]
    /\ ATR \in ATRValues
    /\ history \in {h \in Histories :
                       ~FatalData(h) /\ calculate_atr(h.daily).value = ATR}
    /\ global_min_tick \in TickSizes
    /\ raw_exit_strategy_from_config \in RawExitStrategies
    /\ trade_exit_strategy = ExitStrategyOf(raw_exit_strategy_from_config)
    /\ trade_max_hold_duration_minutes \in HoldMinutes

\* locals of a function that is not running
ExecIdle ==
    /\ limit_price = 0 /\ trade = 0 /\ attempt = 0 /\ elapsed = 0
    /\ price_adjustment_count = 0 /\ ptExit = "none"
StopIdle ==
    /\ sl_trade = 0 /\ new_trade = 0 /\ sl_i = 0
    /\ stoploss_success = FALSE /\ slExit = "none"
MonIdle ==
    /\ now = 0 /\ start_time = 0 /\ last_update_time = 0 /\ wakes = 0
    /\ posQueries = 0 /\ monExit = "none"
    /\ current_market_price = 0 /\ stop_warning = FALSE
ExitIdle ==
    /\ exit_reason = "" /\ cl_trade = 0 /\ cl_attempt = 0 /\ clExit = "none"

\* the process after connecting and loading the history
Init ==
    /\ pc = "signal"
    /\ orders = <<>>
    /\ pos = 0
    /\ Configured
    /\ action = "NONE"
    /\ qty = 0
    /\ stop_price_reference = 0
    /\ ExecIdle /\ fill_price = 0
    /\ StopIdle /\ stop_price = 0 /\ sl_price = 0
    /\ MonIdle
    /\ ExitIdle
    /\ trades_record = <<>>
    /\ cleanupExit = "none"
    /\ done_cancels = 0
    /\ csv_file = <<>>

(* -------------------------------- startup ------------------------------ *)
\* main up to "R = ATR * 0.1": the history requests and their checks; a
\* failed check disconnects and calls exit(1), which runs the finally block
Main_Startup ==
    /\ pc = "startup"
    /\ IF FatalData(history) THEN
           /\ pc' = "cleanup"
           /\ UNCHANGED ATR
       ELSE
           /\ ATR' = calculate_atr(history.daily).value
           /\ pc' = "signal"
    /\ UNCHANGED <<brokerVars, history, bar, global_min_tick,
                   raw_exit_strategy_from_config, trade_exit_strategy,
                   trade_max_hold_duration_minutes, sigVars, execVars, stopVars,
                   monVars, exitVars, trades_record, cleanupExit, csv_file, mktVars, done_cancels>>

(* -------------------------------- broker ------------------------------- *)
\* the venue acknowledges a transmitted order
BrokerAck(i) ==
    /\ orders[i].st = "PendingSubmit"
    /\ orders' = [orders EXCEPT ![i].st =
                     IF orders[i].kind = "stop" THEN "PreSubmitted" ELSE "Submitted"]
    /\ UNCHANGED pos

\* the venue rejects a transmitted order
BrokerReject(i) ==
    /\ orders[i].st = "PendingSubmit"
    /\ orders' = [orders EXCEPT ![i].st = "Inactive", ![i].creq = 0,
                                 ![i].asked = FALSE]
    /\ UNCHANGED pos

\* average fill prices the venue may report for the filled order o
FillPrices(o) ==
    CASE o.kind = "entry" ->
            {o.price, IF o.act = "BUY" THEN o.price - global_min_tick
                                       ELSE o.price + global_min_tick}
      [] o.kind = "stop" -> {o.price}
      [] OTHER -> {fill_price + d : d \in ExitOffsets}

\* the venue fills a live order (a cancel request that has not been
\* processed yet does not prevent the fill); a stop order can trigger only
\* once it is working at the venue
BrokerFill(i) ==
    /\ IsLive(orders[i])
    /\ orders[i].kind = "stop" => orders[i].st # "PendingSubmit"
    /\ orders' = [orders EXCEPT ![i].st = "Filled", ![i].creq = 0,
                                 ![i].asked = FALSE]
    /\ pos' = pos + SignedQty(orders[i].act, orders[i].qty)

\* the venue processes a cancel request
BrokerCancel(i) ==
    /\ IsLive(orders[i])
    /\ orders[i].creq > 0
    /\ orders' = [orders EXCEPT ![i].st = "Cancelled", ![i].creq = 0,
                                 ![i].asked = FALSE]
    /\ UNCHANGED pos

\* the model follows the venue until the process has terminated
Broker ==
    /\ pc # "done"
    /\ \E i \in DOMAIN orders :
          BrokerAck(i) \/ BrokerReject(i) \/ BrokerFill(i) \/ BrokerCancel(i)
    /\ UNCHANGED <<pc, cfgVars, sigVars, execVars, stopVars, monVars, exitVars,
                   trades_record, cleanupExit, csv_file, mktVars, done_cancels>>

(* ------------------------- signal and position size -------------------- *)
\* variant: the signal is taken with >= and <=
SignalOf_Weak(b) ==
    IF b.close >= b.open THEN "BUY" ELSE IF b.close <= b.open THEN "SELL" ELSE "NONE"
\* sign of price_change_percent = (close - open) / open * 100
SignalOf(b) ==
    IF b.close > b.open THEN "BUY" ELSE IF b.close < b.open THEN "SELL" ELSE "NONE"

\* stop_price_reference = format_price(close -/+ R), R = ATR * 0.1
ReferenceStop(act, close, atr, tick) ==
    IF act = "BUY" THEN format_price(10 * close - atr, 10, tick)
    ELSE IF act = "SELL" THEN format_price(10 * close + atr, 10, tick)
    ELSE 0

\* variant: no leverage clamp after the minimum
SizeOf_NoClamp(atr, close) ==
    LET risk_amount  == (ACCOUNT_SIZE * PriceScale) \div RISK_PCT_DEN
        qty_risk     == Max(1, (risk_amount * 10) \div atr)
        max_position == ACCOUNT_SIZE * LEVERAGE * PriceScale
        qty_leverage == Max(1, max_position \div close)
    IN  Min(qty_risk, qty_leverage)
\* qty = min(max(1, int(risk_amount / R)), max(1, int(max_position / close))),
\* then the one-shot leverage clamp; R = ATR * 0.1
SizeOf(atr, close) ==
    LET risk_amount  == (ACCOUNT_SIZE * PriceScale) \div RISK_PCT_DEN
        qty_risk     == Max(1, (risk_amount * 10) \div atr)
        max_position == ACCOUNT_SIZE * LEVERAGE * PriceScale
        qty_leverage == Max(1, max_position \div close)
        q            == Min(qty_risk, qty_leverage)
    IN  IF q * close > max_position THEN max_position \div close ELSE q

Main_Signal ==
    /\ pc = "signal"
    /\ action' = SignalOf(bar)
    /\ qty' = IF SignalOf(bar) = "NONE" THEN 0 ELSE SizeOf(ATR, bar.close)
    /\ stop_price_reference' = ReferenceStop(SignalOf(bar), bar.close, ATR, global_min_tick)
    /\ pc' = IF SignalOf(bar) = "NONE" THEN "cleanup" ELSE "pt_cao1"
    /\ UNCHANGED <<brokerVars, cfgVars, execVars, stopVars, monVars, exitVars,
                   trades_record, cleanupExit, csv_file, mktVars, done_cancels>>

(* ----------------------------- cancel_all_orders ----------------------- *)
\* first loop: every trade of ib.trades() whose status is not in DoneStates
TradesToCancel(ords) == {i \in DOMAIN ords : ords[i].st \notin DoneStates}
\* second loop: every open order with a permId (acknowledged by the venue)
OpenOrdersToCancel(ords) ==
    {i \in DOMAIN ords : IsLive(ords[i]) /\ ords[i].st # "PendingSubmit"}

\* the cancel calls issued for the orders of S that are no longer live
DoneCancels(ords, S) == Cardinality({i \in S : ~IsLive(ords[i])})

\* first loop, then reqAllOpenOrders and sleep(0.5)
CancelAll1(to) ==
    /\ orders' = CancelEach(orders, TradesToCancel(orders))
    /\ done_cancels' = done_cancels + DoneCancels(orders, TradesToCancel(orders))
    /\ pc' = to
    /\ UNCHANGED <<pos, cfgVars, sigVars, execVars, stopVars, monVars, exitVars,
                   trades_record, cleanupExit, csv_file, mktVars>>

\* second loop over ib.openOrders(), then sleep(2).  The loop reads
\* order_to_cancel.orderStatus of an Order object: where the library has no
\* such attribute the read raises at the first listed order, the outer except
\* logs it and no cancel of this loop is issued; both outcomes are kept.
CancelAll2(to) ==
    /\ \E S \in {OpenOrdersToCancel(orders), {}} :
          /\ orders' = CancelEach(orders, S)
          /\ done_cancels' = done_cancels + DoneCancels(orders, S)
    /\ pc' = to
    /\ UNCHANGED <<pos, cfgVars, sigVars, execVars, stopVars, monVars, exitVars,
                   trades_record, cleanupExit, csv_file, mktVars>>

(* -------------------------------- place_trade -------------------------- *)
\* new limit price of a reprice: 0.1% above (BUY) or below (SELL)
RepricedLimit(act, p, tick) ==
    IF act = "BUY" THEN format_price(p * 1001, 1000, tick)
                   ELSE format_price(p * 999, 1000, tick)

\* variant: the status of the order is not looked at
ShouldReprice_AnyStatus(slept, count, status) ==
    /\ slept >= RepriceAfterSeconds
    /\ count < MaxPriceAdjustments
\* elapsed_time > 20 and price_adjustment_count < 2 and status == 'Submitted'
ShouldReprice(slept, count, status) ==
    /\ slept >= RepriceAfterSeconds
    /\ count < MaxPriceAdjustments
    /\ status = "Submitted"

\* variant: the loop ends without a fill and nothing is cancelled
TimeoutCancelTarget_None(cur) == {}
\* the order place_trade cancels when the loop ends without a fill
TimeoutCancelTarget(cur) == {cur}

PT_CancelAll1 == pc = "pt_cao1" /\ CancelAll1("pt_cao2")
PT_CancelAll2 == pc = "pt_cao2" /\ CancelAll2("pt_submit")

PT_Submit ==
    /\ pc = "pt_submit"
    /\ limit_price' = format_price(bar.close, 1, global_min_tick)
    /\ orders' = PlaceOrder(orders, Order("entry", action, qty, limit_price'))
    /\ trade' = Len(orders) + 1
    /\ attempt' = 0
    /\ elapsed' = 0
    /\ price_adjustment_count' = 0
    /\ pc' = "pt_poll"
    /\ UNCHANGED <<pos, cfgVars, sigVars, fill_price, ptExit, stopVars, monVars,
                   exitVars, trades_record, cleanupExit, csv_file, mktVars, done_cancels>>

\* one iteration of the polling loop: sleep(1), read the status, act on it
PT_Poll ==
    /\ pc = "pt_poll"
    /\ \E status \in Reported(orders[trade].st) :
       LET slept == elapsed + 1
       IN  IF status = "Filled" THEN
               /\ fill_price' \in FillPrices(orders[trade])
               /\ ptExit' = "filled"
               /\ pc' = "entry_ret"
               /\ UNCHANGED <<orders, limit_price, attempt, elapsed, price_adjustment_count>>
           ELSE IF status \in TerminalFailure THEN
               /\ ptExit' = "terminal"
               /\ pc' = "entry_ret"
               /\ UNCHANGED <<orders, limit_price, attempt, elapsed,
                              price_adjustment_count, fill_price>>
           ELSE IF ShouldReprice(slept, price_adjustment_count, status) THEN
               /\ price_adjustment_count' = price_adjustment_count + 1
               /\ limit_price' = RepricedLimit(action, limit_price, global_min_tick)
               /\ orders' = CancelEach(orders, {trade})
               /\ elapsed' = slept
               /\ pc' = "pt_reprice"
               /\ UNCHANGED <<attempt, fill_price, ptExit>>
           ELSE IF attempt + 1 < max_attempts THEN
               /\ attempt' = attempt + 1
               /\ elapsed' = slept
               /\ UNCHANGED <<pc, orders, limit_price, price_adjustment_count,
                              fill_price, ptExit>>
           ELSE
               /\ orders' = CancelEach(orders, TimeoutCancelTarget(trade))
               /\ attempt' = attempt + 1
               /\ elapsed' = slept
               /\ ptExit' = "timeout"
               /\ pc' = "entry_ret"
               /\ UNCHANGED <<limit_price, price_adjustment_count, fill_price>>
    /\ UNCHANGED <<pos, trade, cfgVars, sigVars, stopVars, monVars, exitVars,
                   trades_record, cleanupExit, csv_file, mktVars, done_cancels>>

\* after the sleep(1) that follows the cancel: submit the repriced order,
\* reset the clock; when this was the last iteration the loop ends and the
\* fresh order is cancelled at once
PT_Resubmit ==
    /\ pc = "pt_reprice"
    /\ LET placed == PlaceOrder(orders, Order("entry", action, qty, limit_price))
           fresh  == Len(orders) + 1
       IN  /\ trade' = fresh
           /\ elapsed' = 0
           /\ attempt' = attempt + 1
           /\ IF attempt + 1 < max_attempts THEN
                  /\ orders' = placed
                  /\ pc' = "pt_poll"
                  /\ UNCHANGED ptExit
              ELSE
                  /\ orders' = CancelEach(placed, TimeoutCancelTarget(fresh))
                  /\ ptExit' = "timeout"
                  /\ pc' = "entry_ret"
    /\ UNCHANGED <<pos, limit_price, price_adjustment_count, fill_price, cfgVars,
                   sigVars, stopVars, monVars, exitVars, trades_record, cleanupExit, csv_file, mktVars, done_cancels>>

\* a broker call raises inside place_trade: logged, (None, None) returned
PT_Raise ==
    /\ pc \in {"pt_submit", "pt_poll", "pt_reprice"}
    /\ ptExit' = "exception"
    /\ pc' = "entry_ret"
    /\ UNCHANGED <<brokerVars, cfgVars, sigVars, limit_price, trade, attempt, elapsed,
                   price_adjustment_count, fill_price, stopVars, monVars, exitVars,
                   trades_record, cleanupExit, csv_file, mktVars, done_cancels>>

\* reference stop from the fill price: format_price(fill -/+ R), R = ATR * 0.1
StopFromFill(act, fill, atr, tick) ==
    IF act = "BUY" THEN format_price(10 * fill - atr, 10, tick)
                   ELSE format_price(10 * fill + atr, 10, tick)

\* variant: main goes on whatever place_trade returned
HasFill_Always(exit, price) == TRUE
\* "if fill_price:" in main: place_trade returned the fill price it read from
\* the order it saw in status Filled, and the price is not zero
HasFill(exit, price) == exit = "filled" /\ price # 0

\* main: "if fill_price:" after place_trade returned
Main_AfterEntry ==
    /\ pc = "entry_ret"
    /\ IF HasFill(ptExit, fill_price) THEN
           /\ stop_price' = StopFromFill(action, fill_price, ATR, global_min_tick)
           /\ pc' = "sl_cao1"
       ELSE
           /\ pc' = "cleanup"
           /\ UNCHANGED stop_price
    /\ limit_price' = 0 /\ trade' = 0 /\ attempt' = 0 /\ elapsed' = 0
    /\ price_adjustment_count' = 0
    /\ ptExit' = "none"
    /\ UNCHANGED <<brokerVars, cfgVars, sigVars, fill_price, sl_price,
                   sl_trade, new_trade, sl_i, stoploss_success, slExit, monVars,
                   exitVars, trades_record, cleanupExit, csv_file, mktVars, done_cancels>>

(* --------------------------- place_stoploss_order ---------------------- *)
\* stop_price = max(stop_price, fill_price * 1.001) for a BUY stop,
\* min(stop_price, fill_price * 0.999) for a SELL stop; then format_price
FormattedStop(sl_action, stop, fill, tick) ==
    IF sl_action = "BUY"
    THEN format_price(Max(stop * 1000, fill * 1001), 1000, tick)
    ELSE format_price(Min(stop * 1000, fill * 999), 1000, tick)

\* format_price(formatted_stop_price +/- adjustment), adjustment = 0.01
RetryStop(sl_action, formatted, tick) ==
    IF sl_action = "BUY" THEN format_price(formatted + StopNudge, 1, tick)
                         ELSE format_price(formatted - StopNudge, 1, tick)

\* sl_trade.orderStatus.status as place_stoploss_order reads it: once
\* ib.cancelOrder(sl_trade.order) has been called the trade object shows
\* PendingCancel until the broker reports on the order
StopStatus(o) ==
    IF o.st = "PendingSubmit" /\ o.creq > 0 THEN {"PendingCancel"} ELSE Reported(o.st)

\* variant: a stop whose cancel is pending is retried as well
ShouldRetryStop_AnyPending(status, i) ==
    status \in {"PendingSubmit", "PendingCancel"} /\ i >= StopRetryFrom
\* status == 'PendingSubmit' and i >= 8
ShouldRetryStop(status, i) == status = "PendingSubmit" /\ i >= StopRetryFrom

\* orders counted by the first verification loop (STP, STOP or LMT)
OpenStopOrLimit(ords) ==
    {i \in DOMAIN ords : IsLive(ords[i]) /\ ords[i].kind \in {"stop", "entry"}}

SL_CancelAll1 == pc = "sl_cao1" /\ CancelAll1("sl_cao2")
SL_CancelAll2 == pc = "sl_cao2" /\ CancelAll2("sl_submit")

SL_Submit ==
    /\ pc = "sl_submit"
    /\ sl_price' = FormattedStop(Opposite(action), stop_price, fill_price, global_min_tick)
    /\ orders' = PlaceOrder(orders, Order("stop", Opposite(action), qty, sl_price'))
    /\ sl_trade' = Len(orders) + 1
    /\ sl_i' = 0
    /\ pc' = "sl_poll"
    /\ UNCHANGED <<pos, cfgVars, sigVars, execVars, stop_price, new_trade,
                   stoploss_success, slExit, monVars, exitVars, trades_record, cleanupExit, csv_file, mktVars, done_cancels>>

\* one iteration of "for i in range(10)": sleep(1), read the status
SL_Poll ==
    /\ pc = "sl_poll"
    /\ \E status \in StopStatus(orders[sl_trade]) :
           IF status \in {"Submitted", "PreSubmitted", "Filled"} THEN
               /\ stoploss_success' = TRUE
               /\ slExit' = "accepted"
               /\ pc' = "sl_ret"
               /\ UNCHANGED <<orders, sl_i>>
           ELSE IF ShouldRetryStop(status, sl_i) THEN
               /\ orders' = CancelEach(orders, {sl_trade})
               /\ pc' = "sl_retry"
               /\ UNCHANGED <<sl_i, stoploss_success, slExit>>
           ELSE
               /\ sl_i' = sl_i + 1
               /\ pc' = IF sl_i + 1 < StopPollAttempts THEN "sl_poll" ELSE "sl_verify"
               /\ UNCHANGED <<orders, stoploss_success, slExit>>
    /\ UNCHANGED <<pos, cfgVars, sigVars, execVars, stop_price, sl_price, sl_trade,
                   new_trade, monVars, exitVars, trades_record, cleanupExit, csv_file, mktVars, done_cancels>>

\* after sleep(2): submit the nudged stop as new_trade (sl_trade is kept)
SL_Resubmit ==
    /\ pc = "sl_retry"
    /\ orders' = PlaceOrder(orders, Order("stop", Opposite(action), qty,
                              RetryStop(Opposite(action), sl_price, global_min_tick)))
    /\ new_trade' = Len(orders) + 1
    /\ pc' = "sl_retry_check"
    /\ UNCHANGED <<pos, cfgVars, sigVars, execVars, stop_price, sl_price, sl_trade,
                   sl_i, stoploss_success, slExit, monVars, exitVars, trades_record,
                   cleanupExit, csv_file, mktVars, done_cancels>>

\* after sleep(3): the retried order is accepted, or the loop goes on
SL_RetryCheck ==
    /\ pc = "sl_retry_check"
    /\ IF orders[new_trade].st \in {"Submitted", "PreSubmitted"} THEN
           /\ stoploss_success' = TRUE
           /\ slExit' = "retry_accepted"
           /\ pc' = "sl_ret"
           /\ UNCHANGED sl_i
       ELSE
           /\ sl_i' = sl_i + 1
           /\ pc' = IF sl_i + 1 < StopPollAttempts THEN "sl_poll" ELSE "sl_verify"
           /\ UNCHANGED <<stoploss_success, slExit>>
    /\ UNCHANGED <<brokerVars, cfgVars, sigVars, execVars, stop_price, sl_price,
                   sl_trade, new_trade, monVars, exitVars, trades_record, cleanupExit, csv_file, mktVars, done_cancels>>

\* the ten polls are used up: re-list the open orders.  No cancel is issued.
\* The second listing reads order.orderType where the first reads
\* o.order.orderType, so with a non-empty listing the confirmation either
\* finds the stop or raises into the except branch: both outcomes are kept.
SL_Verify ==
    /\ pc = "sl_verify"
    /\ slExit' = "exhausted"
    /\ IF OpenStopOrLimit(orders) = {} THEN stoploss_success' = FALSE
       ELSE \/ stoploss_success' = FALSE
            \/ /\ \E i \in LiveOf("stop") : orders[i].act = Opposite(action)
               /\ stoploss_success' = TRUE
    /\ pc' = "sl_ret"
    /\ UNCHANGED <<brokerVars, cfgVars, sigVars, execVars, stop_price, sl_price,
                   sl_trade, new_trade, sl_i, monVars, exitVars, trades_record,
                   cleanupExit, csv_file, mktVars, done_cancels>>

\* a broker call raises inside the try block: logged, False returned
SL_Raise ==
    /\ pc \in {"sl_submit", "sl_poll", "sl_retry", "sl_retry_check", "sl_verify"}
    /\ stoploss_success' = FALSE
    /\ slExit' = "exception"
    /\ pc' = "sl_ret"
    /\ UNCHANGED <<brokerVars, cfgVars, sigVars, execVars, stop_price, sl_price,
                   sl_trade, new_trade, sl_i, monVars, exitVars, trades_record,
                   cleanupExit, csv_file, mktVars, done_cancels>>

(* ------------------------------- trade record -------------------------- *)
\* variant: the record is created without the entry of the trade
NewRecord_Blank(act, fill, quantity, stop) ==
    [Time |-> "trade_time", Direction |-> "", EntryPrice |-> 0, Quantity |-> 0,
     StopLoss |-> 0, PnL |-> 0, Duration |-> -1, Result |-> "", ExitTime |-> -1,
     ExitReason |-> "", ExitPrice |-> 0]
\* the record main appends; trade_time is written as the string "trade_time"
NewRecord(act, fill, quantity, stop) ==
    [Time |-> "trade_time", Direction |-> act, EntryPrice |-> fill, Quantity |-> quantity, StopLoss |-> stop,
     PnL |-> 0, Duration |-> -1, Result |-> "", ExitTime |-> -1, ExitReason |-> "",
     ExitPrice |-> 0]

\* variant: the direction of the position is ignored
ProfitLoss_Unsigned(act, entry, exit, quantity) == (exit - entry) * quantity
\* profit_loss of a position opened by act at entry and closed at exit
ProfitLoss(act, entry, exit, quantity) ==
    IF act = "BUY" THEN (exit - entry) * quantity ELSE (entry - exit) * quantity

\* variant: a flat trade counts as a profit
ResultOf_NoBreakeven(profit_loss) ==
    IF profit_loss >= 0 THEN "Profit" ELSE "Loss"
\* "Profit" if profit_loss > 0 else "Loss" if profit_loss < 0 else "Breakeven"
ResultOf(profit_loss) ==
    IF profit_loss > 0 THEN "Profit" ELSE IF profit_loss < 0 THEN "Loss" ELSE "Breakeven"

\* abs(trade['EntryPrice'] - entry_price) < 0.1
Matches(rec, entry) == 10 * Abs(rec.EntryPrice - entry) < PriceScale

\* "for trade in trades_record: if match: update; break"
RECURSIVE UpdateFirstMatch(_, _, _)
UpdateFirstMatch(recs, entry, upd) ==
    IF recs = <<>> THEN <<>>
    ELSE IF Matches(Head(recs), entry)
         THEN <<[f \in DOMAIN Head(recs) |->
                    IF f \in DOMAIN upd THEN upd[f] ELSE Head(recs)[f]]>> \o Tail(recs)
         ELSE <<Head(recs)>> \o UpdateFirstMatch(Tail(recs), entry, upd)

\* variant: the exit reason is left empty
ExitFields_NoReason(act, entry, exit, quantity, t_end, t_start, reason) ==
    [ExitPrice |-> exit,
     PnL |-> Round2(ProfitLoss(act, entry, exit, quantity)),
     Duration |-> t_end - t_start,
     Result |-> ResultOf(ProfitLoss(act, entry, exit, quantity)),
     ExitTime |-> t_end,
     ExitReason |-> ""]
\* the fields both exit paths write into the matching record
ExitFields(act, entry, exit, quantity, t_end, t_start, reason) ==
    [ExitPrice |-> exit,
     PnL |-> Round2(ProfitLoss(act, entry, exit, quantity)),
     Duration |-> t_end - t_start,
     Result |-> ResultOf(ProfitLoss(act, entry, exit, quantity)),
     ExitTime |-> t_end,
     ExitReason |-> reason]

\* main: the stop-loss result is only logged; the record is appended
Main_Record ==
    /\ pc = "sl_ret"
    /\ trades_record' = Append(trades_record, NewRecord(action, fill_price, qty, stop_price))
    /\ sl_trade' = 0 /\ new_trade' = 0 /\ sl_i' = 0
    /\ stoploss_success' = FALSE /\ slExit' = "none"
    /\ pc' = "mon_start"
    /\ UNCHANGED <<brokerVars, cfgVars, sigVars, execVars, stop_price, sl_price,
                   monVars, exitVars, cleanupExit, csv_file, mktVars, done_cancels>>

(* --------------------------- monitor_trade_and_exit -------------------- *)
Hour(t) == (t \div 3600) % 24
Minute(t) == (t \div 60) % 60

MaxDurationReason(n) == "Max Duration (" \o ToString(n) \o " min) Reached"

\* current_time.hour == EOD_HOUR and current_time.minute >= EOD_MINUTE_START
EODReached(t) == Hour(t) = EOD_HOUR /\ Minute(t) >= EOD_MINUTE_START

\* variant: strict comparison
MaxDurationReached_Strict(t, t_start, n) == t - t_start > 60 * n
\* elapsed_minutes >= config_max_hold_duration_minutes
MaxDurationReached(t, t_start, n) == t - t_start >= 60 * n

\* variant: the time of day never triggers an exit
PolicyExit_NoEOD(strategy, t, t_start, n) ==
    IF strategy = "MAX_DURATION" /\ MaxDurationReached(t, t_start, n)
    THEN MaxDurationReason(n) ELSE ""
\* exit_reason_for_strategy of one wake; "" when no policy exit is triggered
PolicyExit(strategy, t, t_start, n) ==
    IF strategy = "EOD" THEN
        IF EODReached(t) THEN "EOD Market Close" ELSE ""
    ELSE IF strategy = "MAX_DURATION" THEN
        IF MaxDurationReached(t, t_start, n) THEN MaxDurationReason(n) ELSE ""
    ELSE ""

\* start_time = last_update_time = now; the active-stop listing only logs
MON_Start ==
    /\ pc = "mon_start"
    /\ now' \in MonitorStartTimes(trade_exit_strategy)
    /\ start_time' = now'
    /\ last_update_time' = now'
    /\ wakes' = 0
    /\ posQueries' = 0
    /\ pc' = "mon_policy"
    /\ UNCHANGED <<brokerVars, cfgVars, sigVars, execVars, stopVars, monExit, exitVars,
                   trades_record, cleanupExit, csv_file, mktVars, done_cancels>>

\* top of a wake: the exit policy is evaluated before anything else
MON_Policy ==
    /\ pc = "mon_policy"
    /\ wakes < MaxWakes
    /\ LET reason == PolicyExit(trade_exit_strategy, now, start_time,
                                trade_max_hold_duration_minutes)
       IN  IF reason # "" THEN
               /\ exit_reason' = reason
               /\ monExit' = IF trade_exit_strategy = "EOD" THEN "eod" ELSE "maxdur"
               /\ pc' = "cl_cancel"
           ELSE
               /\ pc' = "mon_check"
               /\ UNCHANGED <<exit_reason, monExit>>
    /\ UNCHANGED <<brokerVars, cfgVars, sigVars, execVars, stopVars, now, start_time,
                   last_update_time, wakes, posQueries, cl_trade, cl_attempt, clExit,
                   trades_record, cleanupExit, csv_file, mktVars, done_cancels>>

\* what ticker.marketPrice() returns in a status refresh: nothing usable, the
\* stop level, or the entry price
MarketPrices(entry, stop) == {0, stop, entry}

\* variant: every refresh logs the warning
PriceWarning_Always(act, price, stop) == TRUE
\* current_market_price > 0 and the price is at or beyond the stop level
PriceWarning(act, price, stop) ==
    /\ price > 0
    /\ \/ act = "BUY" /\ price <= stop
       \/ act = "SELL" /\ price >= stop

\* rest of a wake: ib.positions(); position gone -> stop-loss bookkeeping and
\* the loop ends; otherwise the 60 s status refresh (one more second for the
\* market data) and sleep(5)
MON_Check ==
    /\ pc = "mon_check"
    /\ posQueries' = posQueries + 1
    /\ IF pos = 0 THEN
           /\ trades_record' = UpdateFirstMatch(trades_record, fill_price,
                  ExitFields(action, fill_price, stop_price, qty, now, start_time,
                             "Stop Loss Triggered"))
           /\ monExit' = "stop"
           /\ pc' = "report"
           /\ stop_warning' = FALSE
           /\ UNCHANGED <<now, last_update_time, wakes, current_market_price>>
       ELSE
           /\ IF now - last_update_time >= update_interval
              THEN /\ current_market_price' \in MarketPrices(fill_price, stop_price)
                   /\ stop_warning' = PriceWarning(action, current_market_price', stop_price)
                   /\ last_update_time' = now
                   /\ now' = now + 1 + WakeSeconds
              ELSE /\ now' = now + WakeSeconds
                   /\ stop_warning' = FALSE
                   /\ UNCHANGED <<last_update_time, current_market_price>>
           /\ wakes' = wakes + 1
           /\ pc' = "mon_policy"
           /\ UNCHANGED <<trades_record, monExit>>
    /\ UNCHANGED <<brokerVars, cfgVars, sigVars, execVars, stopVars, start_time,
                   exitVars, cleanupExit, csv_file, done_cancels>>

\* a broker call of the monitor raises: the outer except logs it and the
\* function returns with the position still open
MON_Raise ==
    /\ pc \in {"mon_start", "mon_check"}
    /\ monExit' = "exception"
    /\ pc' = "report"
    /\ UNCHANGED <<brokerVars, cfgVars, sigVars, execVars, stopVars, now, start_time,
                   last_update_time, wakes, posQueries, exitVars, trades_record,
                   cleanupExit, csv_file, mktVars, done_cancels>>

(* -------------------------- close_position_at_market ------------------- *)
\* reqAllOpenOrders() and a cancel for each listed order, then sleep(2)
CL_Cancel ==
    /\ pc = "cl_cancel"
    /\ orders' = CancelEach(orders, LiveOrders)
    /\ pc' = "cl_submit"
    /\ UNCHANGED <<pos, cfgVars, sigVars, execVars, stopVars, monVars, exitVars,
                   trades_record, cleanupExit, csv_file, mktVars, done_cancels>>

CL_Submit ==
    /\ pc = "cl_submit"
    /\ orders' = PlaceOrder(orders, Order("mkt", Opposite(action), qty, 0))
    /\ cl_trade' = Len(orders) + 1
    /\ cl_attempt' = 0
    /\ pc' = "cl_poll"
    /\ UNCHANGED <<pos, cfgVars, sigVars, execVars, stopVars, monVars, exit_reason,
                   clExit, trades_record, cleanupExit, csv_file, mktVars, done_cancels>>

\* the orders close_position_at_market cancels when its polls are used up
CloseTimeoutCancelTarget(cur) == {}

\* one iteration of "for attempt in range(40)": sleep(1), read the status
\* (the wall clock of the model stays at the wake that triggered the close)
CL_Poll ==
    /\ pc = "cl_poll"
    /\ IF orders[cl_trade].st = "Filled" THEN
           /\ \E exit_price \in FillPrices(orders[cl_trade]) :
                 trades_record' = UpdateFirstMatch(trades_record, fill_price,
                    ExitFields(action, fill_price, exit_price, qty,
                               now, start_time, exit_reason))
           /\ clExit' = "filled"
           /\ pc' = "report"
           /\ UNCHANGED <<orders, cl_attempt>>
       ELSE IF cl_attempt + 1 < ClosePollAttempts THEN
           /\ cl_attempt' = cl_attempt + 1
           /\ UNCHANGED <<pc, orders, clExit, trades_record>>
       ELSE
           /\ cl_attempt' = cl_attempt + 1
           /\ orders' = CancelEach(orders, CloseTimeoutCancelTarget(cl_trade))
           /\ clExit' = "unfilled"
           /\ pc' = "report"
           /\ UNCHANGED trades_record
    /\ UNCHANGED <<pos, cfgVars, sigVars, execVars, stopVars, monVars, exit_reason,
                   cl_trade, cleanupExit, csv_file, mktVars, done_cancels>>

\* a broker call raises inside close_position_at_market: logged, False returned
CL_Raise ==
    /\ pc \in {"cl_cancel", "cl_submit", "cl_poll"}
    /\ clExit' = "exception"
    /\ pc' = "report"
    /\ UNCHANGED <<brokerVars, cfgVars, sigVars, execVars, stopVars, monVars,
                   exit_reason, cl_trade, cl_attempt, trades_record, cleanupExit, csv_file, mktVars, done_cancels>>

(* --------------------------------- shutdown ---------------------------- *)
\* what the history file holds when the run starts: nothing, or the row of
\* an earlier day's closed trade
SavedLedgers ==
    {<<>>,
     <<[Time |-> "earlier", Direction |-> "BUY", EntryPrice |-> 1990000, Quantity |-> 5,
        StopLoss |-> 1988000, PnL |-> 2500, Duration |-> 3600, Result |-> "Profit",
        ExitTime |-> 57000, ExitReason |-> "End of Day Close", ExitPrice |-> 1995000]>>}

\* new_trade['Time'] == existing_trade['Time'] and
\* abs(float(new_trade['EntryPrice']) - float(existing_trade['EntryPrice'])) < 0.1
IsDuplicate(new_row, existing) ==
    \E k \in DOMAIN existing :
        /\ new_row.Time = existing[k].Time
        /\ Matches(existing[k], new_row.EntryPrice)

\* df['PnL'].round(2) on every row
RoundedPnL(rows) == [k \in DOMAIN rows |-> [rows[k] EXCEPT !.PnL = Round2(@)]]

\* variant: the rows of the run are dropped when the file has rows already
MergedTrades_KeepExisting(existing, current) ==
    IF existing = <<>> THEN current ELSE existing
\* all_trades_df of print_daily_report: the rows of the file followed by the
\* records of the run that are no duplicate of a row of the file
MergedTrades(existing, current) ==
    LET existing_trades_df == RoundedPnL(existing)
        current_trades_df == RoundedPnL(current)
    IN  existing_trades_df \o
            SelectSeq(current_trades_df, LAMBDA r : ~IsDuplicate(r, existing_trades_df))

\* variant: the records of the run are appended without the duplicate check
print_daily_report_Append(file, records) == file \o records
\* print_daily_report: nothing without a record, else the merged rows are
\* written to the file
print_daily_report(file, records) ==
    IF records = <<>> THEN file ELSE MergedTrades(file, records)

\* print_daily_report() and print_trade_summary() after monitoring
Main_Report ==
    /\ pc = "report"
    /\ csv_file' = print_daily_report(csv_file, trades_record)
    /\ pc' = "cleanup"
    /\ cl_attempt' = 0
    /\ UNCHANGED <<brokerVars, cfgVars, sigVars, execVars, stopVars, monVars,
                   exit_reason, cl_trade, clExit, trades_record, cleanupExit, mktVars, done_cancels>>

\* Ctrl-C while the monitor runs: KeyboardInterrupt is no Exception, so it
\* leaves monitor_trade_and_exit and main's try; the finally block follows
Main_Interrupt ==
    /\ pc \in {"mon_start", "mon_policy", "mon_check", "cl_cancel", "cl_submit", "cl_poll"}
    /\ monExit' = "interrupt"
    /\ pc' = "cleanup"
    /\ UNCHANGED <<brokerVars, cfgVars, sigVars, execVars, stopVars, now, start_time,
                   last_update_time, wakes, posQueries, exitVars, trades_record,
                   cleanupExit, csv_file, mktVars, done_cancels>>

\* the orders the finally block cancels when no call raises
CleanupTargets(ords) == {i \in DOMAIN ords : IsLive(ords[i])}

\* finally: reqAllOpenOrders() and a cancel call for every listed order
Cleanup ==
    /\ pc = "cleanup"
    /\ orders' = CancelEach(orders, CleanupTargets(orders))
    /\ cleanupExit' = "ok"
    /\ pc' = "final_report"
    /\ UNCHANGED <<pos, cfgVars, sigVars, execVars, stopVars, monVars, exitVars,
                   trades_record, csv_file, mktVars, done_cancels>>

\* finally: reqAllOpenOrders() raises (m = 0) or the cancel of order m raises;
\* the single except around the loop logs it and the remaining orders get no
\* cancel call
Cleanup_Raise ==
    /\ pc = "cleanup"
    /\ \E m \in CleanupTargets(orders) \cup {0} :
          orders' = CancelEach(orders, {i \in CleanupTargets(orders) : i < m})
    /\ cleanupExit' = "exception"
    /\ pc' = "final_report"
    /\ UNCHANGED <<pos, cfgVars, sigVars, execVars, stopVars, monVars, exitVars,
                   trades_record, csv_file, mktVars, done_cancels>>

\* finally: "if trades_record: print_daily_report()", then ib.disconnect()
Final_Report ==
    /\ pc = "final_report"
    /\ csv_file' = print_daily_report(csv_file, trades_record)
    /\ pc' = "done"
    /\ UNCHANGED <<brokerVars, cfgVars, sigVars, execVars, stopVars, monVars, exitVars,
                   trades_record, cleanupExit, mktVars, done_cancels>>

(* ------------------------------ specification -------------------------- *)
\* the whole run
Next ==
    \/ Broker
    \/ Main_Signal
    \/ PT_CancelAll1 \/ PT_CancelAll2 \/ PT_Submit \/ PT_Poll \/ PT_Resubmit \/ PT_Raise
    \/ Main_AfterEntry
    \/ SL_CancelAll1 \/ SL_CancelAll2 \/ SL_Submit \/ SL_Poll \/ SL_Resubmit
    \/ SL_RetryCheck \/ SL_Verify \/ SL_Raise
    \/ Main_Record
    \/ MON_Start \/ MON_Policy \/ MON_Check \/ MON_Raise
    \/ CL_Cancel \/ CL_Submit \/ CL_Poll \/ CL_Raise
    \/ Main_Report \/ Main_Interrupt
    \/ Cleanup \/ Cleanup_Raise \/ Final_Report

Spec == Init /\ [][Next]_vars

(* The run is also checked function by function: each of the following     *)
(* specifications starts where main calls the function, in the states the  *)
(* preceding functions hand over, and follows the run to the call of the   *)
(* next function (or to the end of the process).                           *)

\* the filled entry order as the broker holds it after place_trade
FilledEntry(act, quantity, price) ==
    [kind |-> "entry", act |-> act, qty |-> quantity, price |-> price,
     st |-> "Filled", creq |-> 0, asked |-> FALSE]

\* an entry order that was repriced away and is still working
StaleEntry(act, quantity, price) ==
    [kind |-> "entry", act |-> act, qty |-> quantity, price |-> price,
     st |-> "Submitted", creq |-> 1, asked |-> FALSE]

\* the stop order left behind by place_stoploss_order in state st
PlacedStop(act, quantity, price, st) ==
    [kind |-> "stop", act |-> Opposite(act), qty |-> quantity, price |-> price,
     st |-> st, creq |-> 0, asked |-> FALSE]

\* entry: from the signal to the return of place_trade (and, when the entry
\* failed, to the end of the process)
NextEntry ==
    \/ Broker
    \/ Main_Signal
    \/ PT_CancelAll1 \/ PT_CancelAll2 \/ PT_Submit \/ PT_Poll \/ PT_Resubmit \/ PT_Raise
    \/ Main_AfterEntry
    \/ Cleanup \/ Cleanup_Raise \/ Final_Report

SpecEntry == Init /\ [][NextEntry]_vars

\* the process after connecting, before the history is loaded
InitStartup ==
    /\ pc = "startup"
    /\ orders = <<>>
    /\ pos = 0
    /\ history \in Histories
    /\ bar \in [open : BarOpens, close : BarCloses]
    /\ ATR = 0
    /\ global_min_tick \in TickSizes
    /\ raw_exit_strategy_from_config \in RawExitStrategies
    /\ trade_exit_strategy = ExitStrategyOf(raw_exit_strategy_from_config)
    /\ trade_max_hold_duration_minutes \in HoldMinutes
    /\ action = "NONE"
    /\ qty = 0
    /\ stop_price_reference = 0
    /\ ExecIdle /\ fill_price = 0
    /\ StopIdle /\ stop_price = 0 /\ sl_price = 0
    /\ MonIdle
    /\ ExitIdle
    /\ trades_record = <<>>
    /\ cleanupExit = "none"
    /\ done_cancels = 0
    /\ csv_file = <<>>

\* startup and entry: from the history requests to the return of place_trade
NextStartup ==
    \/ Main_Startup
    \/ NextEntry

SpecStartup == InitStartup /\ [][NextStartup]_vars

\* signal and sizing over a wider range of candles, ATR values and tick
\* sizes: a close above account size times leverage, an ATR above the risk
\* amount, a tick of 0.25
SignalOpens == {1999000, 1999990, 2000000, 2000010, 2001000, 100001000}
SignalCloses == {1999990, 2000000, 2000130, 100001000}
SignalATRs == {1, 12345, 20000, 3000000}
SignalTicks == {10, 250}

InitSignal ==
    /\ pc = "signal"
    /\ orders = <<>>
    /\ pos = 0
    /\ bar \in [open : SignalOpens, close : SignalCloses]
    /\ ATR \in SignalATRs
    /\ history = [bars5 |-> 6, age |-> 0, daily |-> [i \in 1..ATR_PERIOD |-> ATR]]
    /\ global_min_tick \in SignalTicks
    /\ raw_exit_strategy_from_config \in RawExitStrategies
    /\ trade_exit_strategy = ExitStrategyOf(raw_exit_strategy_from_config)
    /\ trade_max_hold_duration_minutes \in HoldMinutes
    /\ action = "NONE"
    /\ qty = 0
    /\ stop_price_reference = 0
    /\ ExecIdle /\ fill_price = 0
    /\ StopIdle /\ stop_price = 0 /\ sl_price = 0
    /\ MonIdle
    /\ ExitIdle
    /\ trades_record = <<>>
    /\ cleanupExit = "none"
    /\ done_cancels = 0
    /\ csv_file = <<>>

NextSignal == Main_Signal

SpecSignal == InitSignal /\ [][NextSignal]_vars

\* the entry over instruments of different price and tick: a close of 4.00,
\* 100.00 or 2000.00 with an ATR of 5 % of it, a tick of 0.01 or 0.25
RepriceInstruments ==
    {[close |-> 4000, atr |-> 200], [close |-> 100000, atr |-> 5000],
     [close |-> 2000000, atr |-> 100000]}

InitReprice ==
    /\ pc = "signal"
    /\ orders = <<>>
    /\ pos = 0
    /\ \E ins \in RepriceInstruments :
          /\ bar \in {[open |-> ins.close - 250, close |-> ins.close],
                      [open |-> ins.close + 250, close |-> ins.close]}
          /\ ATR = ins.atr
    /\ history = [bars5 |-> 6, age |-> 0, daily |-> [i \in 1..ATR_PERIOD |-> ATR]]
    /\ global_min_tick \in SignalTicks
    /\ raw_exit_strategy_from_config = "EOD"
    /\ trade_exit_strategy = ExitStrategyOf(raw_exit_strategy_from_config)
    /\ trade_max_hold_duration_minutes \in HoldMinutes
    /\ action = "NONE"
    /\ qty = 0
    /\ stop_price_reference = 0
    /\ ExecIdle /\ fill_price = 0
    /\ StopIdle /\ stop_price = 0 /\ sl_price = 0
    /\ MonIdle
    /\ ExitIdle
    /\ trades_record = <<>>
    /\ cleanupExit = "none"
    /\ done_cancels = 0
    /\ csv_file = <<>>

SpecReprice == InitReprice /\ [][NextEntry]_vars

\* place_stoploss_order is called: the entry has been observed filled, at
\* the first limit price or after one reprice
InitStop ==
    /\ pc = "sl_cao1"
    /\ Configured
    /\ SignalOf(bar) # "NONE"
    /\ action = SignalOf(bar)
    /\ qty = SizeOf(ATR, bar.close)
    /\ stop_price_reference = ReferenceStop(action, bar.close, ATR, global_min_tick)
    /\ \E first \in {format_price(bar.close, 1, global_min_tick)} :
          \/ orders = <<FilledEntry(action, qty, first)>>
          \/ orders = <<StaleEntry(action, qty, first),
                        FilledEntry(action, qty,
                                    RepricedLimit(action, first, global_min_tick))>>
    /\ pos = SignedQty(action, qty)
    /\ ExecIdle
    /\ fill_price \in FillPrices(orders[Len(orders)])
    /\ StopIdle
    /\ stop_price = StopFromFill(action, fill_price, ATR, global_min_tick)
    /\ sl_price = 0
    /\ MonIdle
    /\ ExitIdle
    /\ trades_record = <<>>
    /\ cleanupExit = "none"
    /\ done_cancels = 0
    /\ csv_file = <<>>

NextStop ==
    \/ Broker
    \/ SL_CancelAll1 \/ SL_CancelAll2 \/ SL_Submit \/ SL_Poll \/ SL_Resubmit
    \/ SL_RetryCheck \/ SL_Verify \/ SL_Raise
    \/ Main_Record

SpecStop == InitStop /\ [][NextStop]_vars

\* entry and protection in one run: from the signal to the first step of
\* monitor_trade_and_exit (or to the end of the process)
NextProtect ==
    \/ NextEntry
    \/ SL_CancelAll1 \/ SL_CancelAll2 \/ SL_Submit \/ SL_Poll \/ SL_Resubmit
    \/ SL_RetryCheck \/ SL_Verify \/ SL_Raise
    \/ Main_Record
    \/ MON_Start

SpecProtect == Init /\ [][NextProtect]_vars

\* entry and protection over the instruments of different price and tick
SpecProtectTicks == InitReprice /\ [][NextProtect]_vars

\* monitor_trade_and_exit is called: the record has been appended and the
\* stop order is working, still unacknowledged, or rejected
InitMonitor ==
    /\ pc = "mon_start"
    /\ Configured
    /\ SignalOf(bar) # "NONE"
    /\ action = SignalOf(bar)
    /\ qty = SizeOf(ATR, bar.close)
    /\ stop_price_reference = ReferenceStop(action, bar.close, ATR, global_min_tick)
    /\ ExecIdle
    /\ \E entry \in {FilledEntry(action, qty, format_price(bar.close, 1, global_min_tick))} :
          /\ fill_price \in FillPrices(entry)
          /\ stop_price = StopFromFill(action, fill_price, ATR, global_min_tick)
          /\ sl_price = FormattedStop(Opposite(action), stop_price, fill_price,
                                      global_min_tick)
          /\ \E st \in {"PreSubmitted", "PendingSubmit", "Inactive"} :
                orders = <<entry, PlacedStop(action, qty, sl_price, st)>>
    /\ pos = SignedQty(action, qty)
    /\ StopIdle
    /\ MonIdle
    /\ ExitIdle
    /\ trades_record = <<NewRecord(action, fill_price, qty, stop_price)>>
    /\ cleanupExit = "none"
    /\ done_cancels = 0
    /\ csv_file \in SavedLedgers

NextMonitor ==
    \/ Broker
    \/ MON_Start \/ MON_Policy \/ MON_Check \/ MON_Raise
    \/ CL_Cancel \/ CL_Submit \/ CL_Poll \/ CL_Raise
    \/ Main_Report \/ Main_Interrupt
    \/ Cleanup \/ Cleanup_Raise \/ Final_Report

SpecMonitor == InitMonitor /\ [][NextMonitor]_vars

\* the steps of monitor_trade_and_exit and close_position_at_market when the
\* clock advances and every broker call returns: each one is a bounded sleep
\* followed by straight-line code, so a step that is due is taken
MonitorStep ==
    \/ MON_Start \/ MON_Policy \/ MON_Check
    \/ CL_Cancel \/ CL_Submit \/ CL_Poll

LiveMonitor == InitMonitor /\ [][NextMonitor]_vars /\ WF_vars(MonitorStep)

(* ------------------------ src/TQQQ-ATR-ORB.py: monitoring --------------- *)
(* The TQQQ script has its own monitor_trade_and_exit and                   *)
(* close_position_at_market.  Its Chinese strings are written in pinyin.    *)
position_check_interval == 60
TQ_ClosePollAttempts == 10
TQ_NearCloseMinute == 45
\* wall-clock second of the day at which monitoring starts: 15:48:50 or
\* 15:49:50 US/Eastern
TQ_StartTimes == {56930, 56990}

\* result = "盈利" / "亏损" / "持平"
TQ_ResultOf(profit_loss) ==
    IF profit_loss > 0 THEN "ying li" ELSE IF profit_loss < 0 THEN "kui sun" ELSE "chi ping"

\* exit_reason = "收盘前平仓" if is_near_close else "到达最大持仓时间"
TQ_ExitReason(t) ==
    IF Hour(t) = 15 /\ Minute(t) >= TQ_NearCloseMinute
    THEN "shou pan qian ping cang" ELSE "dao da zui da chi cang shi jian"

\* the record fields written by the TQQQ close (PnL is not rounded)
TQ_ExitFields(act, entry, exit, quantity, t_end, t_start) ==
    [ExitPrice |-> exit,
     PnL |-> ProfitLoss(act, entry, exit, quantity),
     Duration |-> t_end - t_start,
     Result |-> TQ_ResultOf(ProfitLoss(act, entry, exit, quantity)),
     ExitTime |-> t_end,
     ExitReason |-> TQ_ExitReason(t_end)]

\* start_time = last_position_check = now
TQ_MON_Start ==
    /\ pc = "tq_start"
    /\ now' \in TQ_StartTimes
    /\ start_time' = now'
    /\ last_update_time' = now'
    /\ wakes' = 0
    /\ posQueries' = 0
    /\ pc' = "tq_wake"
    /\ UNCHANGED <<brokerVars, cfgVars, sigVars, execVars, stopVars, monExit, exitVars,
                   trades_record, cleanupExit, csv_file, mktVars, done_cancels>>

\* one wake: the 15:50 check, then every 60 s the position query; when the
\* position is gone the loop ends and nothing is written to trades_record
TQ_MON_Wake ==
    /\ pc = "tq_wake"
    /\ wakes < MaxWakes
    /\ IF EODReached(now) THEN
           /\ monExit' = "eod"
           /\ pc' = "tq_cl_cancel"
           /\ UNCHANGED <<now, last_update_time, wakes, posQueries>>
       ELSE IF now - last_update_time >= position_check_interval THEN
           /\ last_update_time' = now
           /\ posQueries' = posQueries + 1
           /\ IF pos = 0 THEN
                  /\ monExit' = "stop"
                  /\ pc' = "tq_ret"
                  /\ UNCHANGED <<now, wakes>>
              ELSE
                  /\ now' = now + 1 + WakeSeconds
                  /\ wakes' = wakes + 1
                  /\ UNCHANGED <<pc, monExit>>
       ELSE
           /\ now' = now + WakeSeconds
           /\ wakes' = wakes + 1
           /\ UNCHANGED <<pc, last_update_time, posQueries, monExit>>
    /\ UNCHANGED <<brokerVars, cfgVars, sigVars, execVars, stopVars, start_time,
                   exitVars, trades_record, cleanupExit, csv_file, mktVars, done_cancels>>

\* ib.positions() or the market-data request raises: logged, the function returns
TQ_MON_Raise ==
    /\ pc = "tq_wake"
    /\ wakes < MaxWakes
    /\ ~EODReached(now)
    /\ now - last_update_time >= position_check_interval
    /\ monExit' = "exception"
    /\ pc' = "tq_ret"
    /\ UNCHANGED <<brokerVars, cfgVars, sigVars, execVars, stopVars, now, start_time,
                   last_update_time, wakes, posQueries, exitVars, trades_record,
                   cleanupExit, csv_file, mktVars, done_cancels>>

TQ_CL_Cancel ==
    /\ pc = "tq_cl_cancel"
    /\ orders' = CancelEach(orders, LiveOrders)
    /\ pc' = "tq_cl_submit"
    /\ UNCHANGED <<pos, cfgVars, sigVars, execVars, stopVars, monVars, exitVars,
                   trades_record, cleanupExit, csv_file, mktVars, done_cancels>>

TQ_CL_Submit ==
    /\ pc = "tq_cl_submit"
    /\ orders' = PlaceOrder(orders, Order("mkt", Opposite(action), qty, 0))
    /\ cl_trade' = Len(orders) + 1
    /\ cl_attempt' = 0
    /\ pc' = "tq_cl_poll"
    /\ UNCHANGED <<pos, cfgVars, sigVars, execVars, stopVars, monVars, exit_reason,
                   clExit, trades_record, cleanupExit, csv_file, mktVars, done_cancels>>

\* one iteration of "for attempt in range(10)": sleep(1), read the status
TQ_CL_Poll ==
    /\ pc = "tq_cl_poll"
    /\ IF orders[cl_trade].st = "Filled" THEN
           /\ \E exit_price \in FillPrices(orders[cl_trade]) :
                 trades_record' = UpdateFirstMatch(trades_record, fill_price,
                    TQ_ExitFields(action, fill_price, exit_price, qty, now, start_time))
           /\ exit_reason' = TQ_ExitReason(now)
           /\ clExit' = "filled"
           /\ pc' = "tq_ret"
           /\ UNCHANGED cl_attempt
       ELSE IF cl_attempt + 1 < TQ_ClosePollAttempts THEN
           /\ cl_attempt' = cl_attempt + 1
           /\ UNCHANGED <<pc, clExit, exit_reason, trades_record>>
       ELSE
           /\ cl_attempt' = cl_attempt + 1
           /\ clExit' = "unfilled"
           /\ pc' = "tq_ret"
           /\ UNCHANGED <<exit_reason, trades_record>>
    /\ UNCHANGED <<brokerVars, cfgVars, sigVars, execVars, stopVars, monVars,
                   cl_trade, cleanupExit, csv_file, mktVars, done_cancels>>

TQ_CL_Raise ==
    /\ pc \in {"tq_cl_cancel", "tq_cl_submit", "tq_cl_poll"}
    /\ clExit' = "exception"
    /\ pc' = "tq_ret"
    /\ UNCHANGED <<brokerVars, cfgVars, sigVars, execVars, stopVars, monVars,
                   exit_reason, cl_trade, cl_attempt, trades_record, cleanupExit, csv_file, mktVars, done_cancels>>

\* main after the monitor returned: print_daily_report(), print_trade_summary()
TQ_Main_Report ==
    /\ pc = "tq_ret"
    /\ csv_file' = print_daily_report(csv_file, trades_record)
    /\ pc' = "tq_final_report"
    /\ UNCHANGED <<brokerVars, cfgVars, sigVars, execVars, stopVars, monVars, exitVars,
                   trades_record, cleanupExit, mktVars, done_cancels>>

\* Ctrl-C while the monitor runs: the finally block follows
TQ_Interrupt ==
    /\ pc \in {"tq_start", "tq_wake", "tq_cl_cancel", "tq_cl_submit", "tq_cl_poll"}
    /\ monExit' = "interrupt"
    /\ pc' = "tq_final_report"
    /\ UNCHANGED <<brokerVars, cfgVars, sigVars, execVars, stopVars, now, start_time,
                   last_update_time, wakes, posQueries, exitVars, trades_record,
                   cleanupExit, csv_file, mktVars, done_cancels>>

\* finally, first block: "if trades_record: print_daily_report()"
TQ_Final_Report ==
    /\ pc = "tq_final_report"
    /\ csv_file' = print_daily_report(csv_file, trades_record)
    /\ pc' = "tq_cleanup"
    /\ UNCHANGED <<brokerVars, cfgVars, sigVars, execVars, stopVars, monVars, exitVars,
                   trades_record, cleanupExit, mktVars, done_cancels>>

\* finally, second block: reqAllOpenOrders() and a cancel call for every
\* listed order, then ib.disconnect()
TQ_Cleanup ==
    /\ pc = "tq_cleanup"
    /\ orders' = CancelEach(orders, CleanupTargets(orders))
    /\ cleanupExit' = "ok"
    /\ pc' = "done"
    /\ UNCHANGED <<pos, cfgVars, sigVars, execVars, stopVars, monVars, exitVars,
                   trades_record, csv_file, mktVars, done_cancels>>

\* finally, second block: reqAllOpenOrders() raises (m = 0) or the cancel of
\* order m raises
TQ_Cleanup_Raise ==
    /\ pc = "tq_cleanup"
    /\ \E m \in CleanupTargets(orders) \cup {0} :
          orders' = CancelEach(orders, {i \in CleanupTargets(orders) : i < m})
    /\ cleanupExit' = "exception"
    /\ pc' = "done"
    /\ UNCHANGED <<pos, cfgVars, sigVars, execVars, stopVars, monVars, exitVars,
                   trades_record, csv_file, mktVars, done_cancels>>

\* the TQQQ monitor is called with the record appended and the stop placed
InitTQQQ ==
    /\ pc = "tq_start"
    /\ Configured
    /\ SignalOf(bar) # "NONE"
    /\ action = SignalOf(bar)
    /\ qty = SizeOf(ATR, bar.close)
    /\ stop_price_reference = ReferenceStop(action, bar.close, ATR, global_min_tick)
    /\ ExecIdle
    /\ \E entry \in {FilledEntry(action, qty, format_price(bar.close, 1, global_min_tick))} :
          /\ fill_price \in FillPrices(entry)
          /\ stop_price = StopFromFill(action, fill_price, ATR, global_min_tick)
          /\ sl_price = FormattedStop(Opposite(action), stop_price, fill_price,
                                      global_min_tick)
          /\ \E st \in {"PreSubmitted", "PendingSubmit", "Inactive"} :
                orders = <<entry, PlacedStop(action, qty, sl_price, st)>>
    /\ pos = SignedQty(action, qty)
    /\ StopIdle
    /\ MonIdle
    /\ ExitIdle
    /\ trades_record = <<NewRecord(action, fill_price, qty, stop_price)>>
    /\ cleanupExit = "none"
    /\ done_cancels = 0
    /\ csv_file \in SavedLedgers

NextTQQQ ==
    \/ Broker
    \/ TQ_MON_Start \/ TQ_MON_Wake \/ TQ_MON_Raise
    \/ TQ_CL_Cancel \/ TQ_CL_Submit \/ TQ_CL_Poll \/ TQ_CL_Raise
    \/ TQ_Main_Report \/ TQ_Interrupt \/ TQ_Final_Report
    \/ TQ_Cleanup \/ TQ_Cleanup_Raise

SpecTQQQ == InitTQQQ /\ [][NextTQQQ]_vars

(* ------------------------ src/XAU-ATR-ORB.py: monitoring ---------------- *)
(* The XAU script reads no exit strategy: its monitor_trade_and_exit is     *)
(* called with max_duration_minutes=60 and tests the time of day and the    *)
(* holding time in every wake.  The specification follows the monitor to    *)
(* its call of close_position_at_market or to its return.                   *)
XAU_max_duration_minutes == 60
XAU_MaxWakes == 720
\* wall-clock second of the day at which monitoring starts: 10:00:00 or
\* 15:49:50 US/Eastern
XAU_StartTimes == {36000, 56990}

\* the record fields written when the position is found closed: the exit
\* price is the stop price, ExitReason = "止损触发", PnL is not rounded
XAU_StopFields(act, entry, stop, quantity, t_end, t_start) ==
    [ExitPrice |-> stop,
     PnL |-> ProfitLoss(act, entry, stop, quantity),
     Duration |-> t_end - t_start,
     Result |-> TQ_ResultOf(ProfitLoss(act, entry, stop, quantity)),
     ExitTime |-> t_end,
     ExitReason |-> "zhi sun chu fa"]

\* start_time = last_update_time = now; the active-stop listing only logs
XAU_MON_Start ==
    /\ pc = "xau_start"
    /\ now' \in XAU_StartTimes
    /\ start_time' = now'
    /\ last_update_time' = now'
    /\ wakes' = 0
    /\ posQueries' = 0
    /\ pc' = "xau_wake"
    /\ UNCHANGED <<brokerVars, cfgVars, sigVars, execVars, stopVars, monExit, exitVars,
                   trades_record, cleanupExit, csv_file, mktVars, done_cancels>>

\* one wake: the 15:50 check, the holding-time check, ib.positions() with
\* the stop-loss bookkeeping when the position is gone, the 60 s status
\* refresh (one more second for the market data) and sleep(5)
XAU_MON_Wake ==
    /\ pc = "xau_wake"
    /\ wakes < XAU_MaxWakes
    /\ IF EODReached(now) THEN
           /\ monExit' = "eod"
           /\ pc' = "xau_close"
           /\ UNCHANGED <<now, last_update_time, wakes, posQueries, trades_record>>
       ELSE IF MaxDurationReached(now, start_time, XAU_max_duration_minutes) THEN
           /\ monExit' = "maxdur"
           /\ pc' = "xau_close"
           /\ UNCHANGED <<now, last_update_time, wakes, posQueries, trades_record>>
       ELSE IF pos = 0 THEN
           /\ posQueries' = posQueries + 1
           /\ trades_record' = UpdateFirstMatch(trades_record, fill_price,
                  XAU_StopFields(action, fill_price, stop_price, qty, now, start_time))
           /\ monExit' = "stop"
           /\ pc' = "xau_ret"
           /\ UNCHANGED <<now, last_update_time, wakes>>
       ELSE
           /\ posQueries' = posQueries + 1
           /\ IF now - last_update_time >= update_interval
              THEN /\ last_update_time' = now
                   /\ now' = now + 1 + WakeSeconds
              ELSE /\ now' = now + WakeSeconds
                   /\ UNCHANGED last_update_time
           /\ wakes' = wakes + 1
           /\ UNCHANGED <<pc, monExit, trades_record>>
    /\ UNCHANGED <<brokerVars, cfgVars, sigVars, execVars, stopVars, start_time,
                   exitVars, cleanupExit, csv_file, mktVars, done_cancels>>

\* ib.positions() or the market-data request raises: logged, the function returns
XAU_MON_Raise ==
    /\ pc = "xau_wake"
    /\ wakes < XAU_MaxWakes
    /\ ~EODReached(now)
    /\ ~MaxDurationReached(now, start_time, XAU_max_duration_minutes)
    /\ monExit' = "exception"
    /\ pc' = "xau_ret"
    /\ UNCHANGED <<brokerVars, cfgVars, sigVars, execVars, stopVars, now, start_time,
                   last_update_time, wakes, posQueries, exitVars, trades_record,
                   cleanupExit, csv_file, mktVars, done_cancels>>

\* the XAU monitor is called with the record appended and the stop placed
InitXAU ==
    /\ pc = "xau_start"
    /\ Configured
    /\ SignalOf(bar) # "NONE"
    /\ action = SignalOf(bar)
    /\ qty = SizeOf(ATR, bar.close)
    /\ stop_price_reference = ReferenceStop(action, bar.close, ATR, global_min_tick)
    /\ ExecIdle
    /\ \E entry \in {FilledEntry(action, qty, format_price(bar.close, 1, global_min_tick))} :
          /\ fill_price \in FillPrices(entry)
          /\ stop_price = StopFromFill(action, fill_price, ATR, global_min_tick)
          /\ sl_price = FormattedStop(Opposite(action), stop_price, fill_price,
                                      global_min_tick)
          /\ \E st \in {"PreSubmitted", "PendingSubmit", "Inactive"} :
                orders = <<entry, PlacedStop(action, qty, sl_price, st)>>
    /\ pos = SignedQty(action, qty)
    /\ StopIdle
    /\ MonIdle
    /\ ExitIdle
    /\ trades_record = <<NewRecord(action, fill_price, qty, stop_price)>>
    /\ cleanupExit = "none"
    /\ done_cancels = 0
    /\ csv_file = <<>>

NextXAU ==
    \/ Broker
    \/ XAU_MON_Start \/ XAU_MON_Wake \/ XAU_MON_Raise

SpecXAU == InitXAU /\ [][NextXAU]_vars

(* ------------------ src/XAU-ATR-ORB.py: cancel_all_orders --------------- *)
\* first loop of the XAU script: every trade of ib.trades() with orderId > 0,
\* whatever its status (every order of the run has a positive id)
XAU_TradesToCancel(ords) == DOMAIN ords
\* second loop: the orders listed by reqAllOpenOrders()
XAU_OpenOrdersToCancel(ords) ==
    {i \in DOMAIN ords : IsLive(ords[i]) /\ ords[i].st # "PendingSubmit"}

XAU_CancelAll1 ==
    /\ pc = "xau_cao1"
    /\ orders' = CancelEach(orders, XAU_TradesToCancel(orders))
    /\ done_cancels' = done_cancels + DoneCancels(orders, XAU_TradesToCancel(orders))
    /\ pc' = "xau_cao2"
    /\ UNCHANGED <<pos, cfgVars, sigVars, execVars, stopVars, monVars, exitVars,
                   trades_record, cleanupExit, csv_file, mktVars>>

\* second loop, then sleep(3): the listed entries have an orderId and are
\* cancelled, or they are trade objects without one and are skipped
XAU_CancelAll2 ==
    /\ pc = "xau_cao2"
    /\ \E S \in {XAU_OpenOrdersToCancel(orders), {}} :
          /\ orders' = CancelEach(orders, S)
          /\ done_cancels' = done_cancels + DoneCancels(orders, S)
    /\ pc' = "xau_sl_submit"
    /\ UNCHANGED <<pos, cfgVars, sigVars, execVars, stopVars, monVars, exitVars,
                   trades_record, cleanupExit, csv_file, mktVars>>

\* place_stoploss_order of the XAU script is called after the entry fill and
\* starts with cancel_all_orders()
InitXAUCancel ==
    /\ pc = "xau_cao1"
    /\ Configured
    /\ SignalOf(bar) # "NONE"
    /\ action = SignalOf(bar)
    /\ qty = SizeOf(ATR, bar.close)
    /\ stop_price_reference = ReferenceStop(action, bar.close, ATR, global_min_tick)
    /\ \E first \in {format_price(bar.close, 1, global_min_tick)} :
          \/ orders = <<FilledEntry(action, qty, first)>>
          \/ orders = <<StaleEntry(action, qty, first),
                        FilledEntry(action, qty,
                                    RepricedLimit(action, first, global_min_tick))>>
    /\ pos = SignedQty(action, qty)
    /\ ExecIdle
    /\ fill_price \in FillPrices(orders[Len(orders)])
    /\ StopIdle
    /\ stop_price = StopFromFill(action, fill_price, ATR, global_min_tick)
    /\ sl_price = 0
    /\ MonIdle
    /\ ExitIdle
    /\ trades_record = <<>>
    /\ cleanupExit = "none"
    /\ done_cancels = 0
    /\ csv_file = <<>>

NextXAUCancel ==
    \/ Broker
    \/ XAU_CancelAll1 \/ XAU_CancelAll2

SpecXAUCancel == InitXAUCancel /\ [][NextXAUCancel]_vars

(* --------------------------------- properties -------------------------- *)
\* C1: while place_trade runs, at most one entry order of the run is live at
\* the broker at any instant, also across a reprice (cancel, wait 1 s, submit).
C1_OneLiveEntry ==
    pc \in {"pt_cao1", "pt_cao2", "pt_submit", "pt_poll", "pt_reprice"}
        => Cardinality(LiveOf("entry")) <= 1

\* C2: at every instant there is at most one live protective stop order, also
\* during the PendingSubmit cancel-and-resubmit retry of place_stoploss_order.
C2_OneLiveStop == Cardinality(LiveOf("stop")) <= 1

\* C3: when the process has terminated, every order that is still live has
\* had a cancel call issued for it.
C3_NoOrphanAtExit ==
    pc = "done" => \A i \in LiveOrders : orders[i].creq > 0

\* C4: monitoring ends only by StopTriggered, PolicyClose(EOD) or
\* PolicyClose(MaxDuration).
C4_ThreeWaysOut ==
    pc = "report" => monExit \in {"stop", "eod", "maxdur"}

\* C5: under the EOD policy a wake goes to the policy close if and only if
\* its wall-clock time is at or after 15:50: a wake that goes on to the
\* position query is before 15:50, a wake that closes is at or after 15:50.
C5_EODIffAfterStart ==
    trade_exit_strategy = "EOD" =>
        /\ pc = "mon_check" => 60 * Hour(now) + Minute(now) < 60 * 15 + 50
        /\ pc = "cl_cancel" => 60 * Hour(now) + Minute(now) >= 60 * 15 + 50

\* C6: under the MaxDuration policy with N minutes no wake with elapsed >= N
\* gets to the position query, and the wake that closes has elapsed >= N,
\* carries the reason "Max Duration (N min) Reached" and has made no position
\* query of its own (one query per earlier wake).
C6_MaxDurationClose ==
    trade_exit_strategy = "MAX_DURATION" =>
        /\ pc = "mon_check" =>
               now - start_time < 60 * trade_max_hold_duration_minutes
        /\ pc = "cl_cancel" =>
               /\ now - start_time >= 60 * trade_max_hold_duration_minutes
               /\ monExit = "maxdur"
               /\ exit_reason = "Max Duration (" \o
                      ToString(trade_max_hold_duration_minutes) \o " min) Reached"
               /\ posQueries = wakes

C6_Witness ==
    /\ pc = "cl_cancel"
    /\ trade_exit_strategy = "MAX_DURATION"
    /\ monExit = "maxdur"
    /\ wakes = 12 * trade_max_hold_duration_minutes
    /\ posQueries = wakes

\* C7: when a wake finds the instrument absent, the matching record gets
\* ExitPrice = stop, PnL = (stop - entry) * qty for BUY and (entry - stop) * qty
\* for SELL, Result by the sign of PnL, ExitReason "Stop Loss Triggered", and
\* the loop ends.
C7_StopTriggerRecorded ==
    monExit = "stop" =>
        /\ pc \notin {"mon_policy", "mon_check", "tq_wake"}
        /\ \A k \in DOMAIN trades_record :
              LET r == trades_record[k]
                  pnl == IF r.Direction = "BUY"
                         THEN (r.StopLoss - r.EntryPrice) * r.Quantity
                         ELSE (r.EntryPrice - r.StopLoss) * r.Quantity
              IN  /\ r.ExitPrice = r.StopLoss
                  /\ r.PnL = pnl
                  /\ r.Result = (IF pnl > 0 THEN "Profit"
                                 ELSE IF pnl < 0 THEN "Loss" ELSE "Breakeven")
                  /\ r.ExitReason = "Stop Loss Triggered"

\* C8: once close_position_at_market has run, the record created at entry is
\* fully populated: exit reason, price, time, duration and result are set and
\* PnL = (exit - entry) * qty * sign(direction).
C8_PopulatedAfterClose ==
    (pc = "report" /\ clExit # "none") =>
        \A k \in DOMAIN trades_record :
            LET r == trades_record[k]
            IN  /\ r.ExitReason # ""
                /\ r.ExitPrice # 0
                /\ r.ExitTime # -1
                /\ r.Duration # -1
                /\ r.Result # ""
                /\ r.PnL = (r.ExitPrice - r.EntryPrice) * r.Quantity
                              * (IF r.Direction = "BUY" THEN 1 ELSE -1)

\* C8 (amended): when close_position_at_market has run, the record is fully
\* populated exactly if the close saw its market order Filled: then ExitReason
\* is the reason handed to the close, ExitPrice, ExitTime, Duration and Result
\* are set and PnL = round((exit - entry) * qty * sign(direction), 2); when the
\* polls ran out or a call raised, the record is left as it was created.
C8_PopulatedIffCloseFilled ==
    (pc = "report" /\ clExit # "none") =>
        \A k \in DOMAIN trades_record :
            LET r == trades_record[k]
                pnl == (r.ExitPrice - r.EntryPrice) * r.Quantity
                          * (IF r.Direction = "BUY" THEN 1 ELSE -1)
            IN  IF clExit = "filled"
                THEN /\ r.ExitReason = exit_reason
                     /\ r.ExitReason # ""
                     /\ r.ExitPrice # 0
                     /\ r.ExitTime = now
                     /\ r.Duration = now - start_time
                     /\ r.Result = (IF pnl > 0 THEN "Profit"
                                    ELSE IF pnl < 0 THEN "Loss" ELSE "Breakeven")
                     /\ r.PnL = RoundHalfEven(pnl, 10) * 10
                ELSE /\ r.ExitReason = ""
                     /\ r.ExitPrice = 0
                     /\ r.ExitTime = -1
                     /\ r.Duration = -1
                     /\ r.Result = ""
                     /\ r.PnL = 0

C8_Witness ==
    /\ pc = "report"
    /\ clExit = "filled"
    /\ trades_record # <<>>
    /\ trades_record[1].Direction = "SELL"
    /\ trades_record[1].Result = "Loss"
    /\ trades_record[1].ExitReason = exit_reason

\* C9: the step by which place_trade gives up after max_attempts polls issues
\* exactly one cancel call, for the most recently submitted entry order, which
\* has received no other cancel; no fill price is returned and main goes to
\* the shutdown.
C9_TimeoutCancelsOnce ==
    [][ /\ (ptExit # "timeout" /\ ptExit' = "timeout") =>
              /\ attempt' = max_attempts
              /\ trade' = Len(orders')
              /\ orders'[trade'].kind = "entry"
              /\ IsLive(orders'[trade'])
              /\ orders'[trade'].creq = 1
              /\ \A i \in DOMAIN orders :
                     i # trade' => /\ orders'[i].creq = orders[i].creq
                                   /\ orders'[i].st = orders[i].st
              /\ fill_price' = 0
        /\ (pc = "entry_ret" /\ ptExit = "timeout") => pc' \in {"entry_ret", "cleanup"}
      ]_vars

C9_Witness ==
    /\ pc = "entry_ret"
    /\ ptExit = "timeout"
    /\ attempt = max_attempts
    /\ Len(orders) = 1 + MaxPriceAdjustments
    /\ orders[trade].creq = 1

\* C10: a state machine that gives up on an exhausted attempt budget (entry
\* after 40 polls, stop-loss after 10 polls, exit after its poll cap) has
\* issued a cancel call for its own outstanding order when it returns failure.
C10_GiveUpCancels ==
    /\ (pc = "entry_ret" /\ ptExit = "timeout") =>
           (IsLive(orders[trade]) => orders[trade].creq > 0)
    /\ (pc = "sl_ret" /\ slExit = "exhausted" /\ ~stoploss_success) =>
           \A i \in {sl_trade, new_trade} \ {0} :
               IsLive(orders[i]) => orders[i].creq > 0
    /\ (pc = "report" /\ clExit = "unfilled") =>
           (IsLive(orders[cl_trade]) => orders[cl_trade].creq > 0)

\* C11: a run whose history is fatal (no 5-minute bar, fewer than 14 daily
\* bars, or an ATR that is NaN or <= 0) aborts: it never gets past the startup
\* to the signal and no order is ever submitted.
C11_FatalPlacesNoOrder ==
    (\/ history.bars5 < 1
     \/ Len(history.daily) < 14
     \/ calculate_atr(history.daily).nan
     \/ calculate_atr(history.daily).value <= 0)
        => /\ orders = <<>>
           /\ pc \in {"startup", "cleanup", "final_report", "done"}
           /\ action = "NONE"

C11_Witness ==
    /\ pc = "done"
    /\ orders = <<>>
    /\ history.bars5 >= 1
    /\ Len(history.daily) >= 14
    /\ calculate_atr(history.daily).value = 0

\* C12: once the signal is taken it is NONE iff close = open (and the run
\* goes to its end without trading), BUY iff close > open, SELL iff
\* close < open; the reference stop is within one tick of close - ATR*0.1 for
\* BUY and of close + ATR*0.1 for SELL.
C12_SignalAndReferenceStop ==
    pc # "signal" =>
        /\ action = "NONE" <=> bar.close = bar.open
        /\ action = "BUY" <=> bar.close > bar.open
        /\ action = "SELL" <=> bar.close < bar.open
        /\ action = "NONE" => pc \in {"cleanup", "final_report", "done"} /\ orders = <<>>
        /\ action = "BUY" =>
               Abs(10 * stop_price_reference - (10 * bar.close - ATR))
                   <= 10 * global_min_tick
        /\ action = "SELL" =>
               Abs(10 * stop_price_reference - (10 * bar.close + ATR))
                   <= 10 * global_min_tick

C12_Witness ==
    /\ pc = "pt_cao1"
    /\ action = "SELL"
    /\ global_min_tick = 250
    /\ ATR = 12345
    /\ 10 * stop_price_reference # 10 * bar.close + ATR

\* C13: the sized quantity is min(floor(accountSize*riskFraction/R),
\* floor(accountSize*leverageCap/price)) and quantity*price/accountSize is at
\* most leverageCap.
C13_QuantityIsMinOfFloors ==
    (pc # "signal" /\ action # "NONE") =>
        /\ qty = Min((ACCOUNT_SIZE * PriceScale * 10) \div (RISK_PCT_DEN * ATR),
                     (ACCOUNT_SIZE * LEVERAGE * PriceScale) \div bar.close)
        /\ qty * bar.close <= ACCOUNT_SIZE * LEVERAGE * PriceScale

\* C13 (amended): the sized quantity is min(max(1, floor(accountSize*
\* riskFraction/R)), max(1, floor(accountSize*leverageCap/price))), replaced
\* by floor(accountSize*leverageCap/price) when that minimum times the price
\* exceeds accountSize*leverageCap; afterwards quantity*price/accountSize is
\* at most leverageCap.
C13_QuantityIsMinOfFlooredAtOne ==
    (pc # "signal" /\ action # "NONE") =>
        LET by_risk == (ACCOUNT_SIZE * PriceScale * 10) \div (RISK_PCT_DEN * ATR)
            by_leverage == (ACCOUNT_SIZE * LEVERAGE * PriceScale) \div bar.close
            least == Min(IF by_risk < 1 THEN 1 ELSE by_risk,
                         IF by_leverage < 1 THEN 1 ELSE by_leverage)
        IN  /\ qty = IF least * bar.close > ACCOUNT_SIZE * LEVERAGE * PriceScale
                     THEN by_leverage ELSE least
            /\ qty * bar.close <= ACCOUNT_SIZE * LEVERAGE * PriceScale

C13_Witness ==
    /\ pc = "pt_cao1"
    /\ (ACCOUNT_SIZE * PriceScale * 10) \div (RISK_PCT_DEN * ATR) = 0
    /\ qty = 1

\* C14: the quantity handed to place_trade is an integer >= 1.
C14_QuantityAtLeastOne ==
    (pc # "signal" /\ action # "NONE") => qty >= 1

\* C15: every protective stop submitted by place_stoploss_order is, after
\* tick quantization, <= fillPrice*0.999 and <= the reference stop for a long
\* entry, and >= fillPrice*1.001 and >= the reference stop for a short entry.
C15_StopAtLeastOneTenthPercentAway ==
    \A i \in DOMAIN orders :
        orders[i].kind = "stop" =>
            IF action = "BUY"
            THEN /\ 1000 * orders[i].price <= 999 * fill_price
                 /\ orders[i].price <= stop_price
            ELSE /\ 1000 * orders[i].price >= 1001 * fill_price
                 /\ orders[i].price >= stop_price

\* C16: every order submission (initial entry, repriced entry, initial stop,
\* retried stop, market close) is preceded by a cancel request for every
\* order that is open at that moment, with no other submission in between:
\* in a step that places an order, every order that is live before the step
\* has received a cancel call since the latest earlier placeOrder.
C16_SubmissionAfterCancelOfEveryOpenOrder ==
    [][Len(orders') > Len(orders) =>
          \A i \in DOMAIN orders : IsLive(orders[i]) => orders[i].asked]_vars

C18_ProtectOnlyAfterFill ==
    /\ []((\/ \E i \in DOMAIN orders : orders[i].kind = "stop"
           \/ trades_record # <<>>
           \/ pc \in {"sl_cao1", "sl_cao2", "sl_submit", "sl_poll", "sl_retry", "sl_verify",
                       "sl_ret", "mon_start", "mon_policy", "mon_check"})
              => (/\ fill_price # 0
                  /\ \E i \in DOMAIN orders :
                        orders[i].kind = "entry" /\ orders[i].st = "Filled"))
    /\ [][(pc = "entry_ret" /\ ptExit # "filled" /\ pc' # pc) =>
              (/\ pc' = "cleanup"
               /\ trades_record' = <<>>
               /\ orders' = orders)]_vars

C18_Witness ==
    /\ pc = "mon_policy"
    /\ trades_record # <<>>
    /\ \E i \in DOMAIN orders : orders[i].kind = "stop"
    /\ \E i \in DOMAIN orders : orders[i].kind = "entry" /\ orders[i].st = "Filled"

\* C19: when place_stoploss_order has returned failure the run does not
\* abort: the next step of main creates the record of the trade (direction,
\* entry price, quantity, stop price, no exit yet) and calls
\* monitor_trade_and_exit with the position open.
C19_StopFailureStillMonitors ==
    [][(pc = "sl_ret" /\ ~stoploss_success /\ pc' # pc) =>
          (/\ pc' = "mon_start"
           /\ Len(trades_record') = Len(trades_record) + 1
           /\ LET rec == trades_record'[Len(trades_record')]
              IN /\ rec.Direction = action
                 /\ rec.EntryPrice = fill_price
                 /\ rec.Quantity = qty
                 /\ rec.StopLoss = stop_price
                 /\ rec.ExitReason = ""
           /\ pos' = pos)]_vars

C19_Witness ==
    /\ pc = "mon_policy"
    /\ Len(trades_record) = 1
    /\ trades_record[1].EntryPrice = fill_price
    /\ pos # 0
    /\ \E i \in DOMAIN orders : orders[i].kind = "stop"
    /\ \A i \in DOMAIN orders : orders[i].kind = "stop" => orders[i].st = "Inactive"

\* C20: exactly one exit policy is in force during a run: the configured
\* value falls back to EOD when it is not recognised, a policy close caused
\* by the holding time happens only under MAX_DURATION and a policy close
\* caused by the time of day happens only under EOD.
C20_OneExitPolicy ==
    /\ trade_exit_strategy \in {"EOD", "MAX_DURATION"}
    /\ trade_exit_strategy =
           (IF processed_strategy_token(raw_exit_strategy_from_config) = "MAX_DURATION"
            THEN "MAX_DURATION" ELSE "EOD")
    /\ monExit = "maxdur" => trade_exit_strategy = "MAX_DURATION"
    /\ monExit = "eod" => trade_exit_strategy = "EOD"

\* C21: the exit fields of a trade record are written at most once per run,
\* by exactly one of the three exit transitions (stop-loss trigger,
\* end-of-day close, max-duration close): a step that changes the records
\* finds the record without an exit and writes the reason of the transition
\* that ended the monitoring, and a record that has its exit reason is never
\* changed again.
C21_ExitWrittenOnce ==
    [][(trades_record # <<>> /\ trades_record' # trades_record) =>
          (/\ Len(trades_record') = Len(trades_record)
           /\ \A k \in DOMAIN trades_record :
                 trades_record'[k] # trades_record[k] =>
                    /\ trades_record[k].ExitReason = ""
                    /\ trades_record[k].ExitTime = -1
                    /\ trades_record[k].ExitPrice = 0
                    /\ monExit' \in {"stop", "eod", "maxdur"}
                    /\ trades_record'[k].ExitReason =
                          (CASE monExit' = "stop" -> "Stop Loss Triggered"
                             [] monExit' = "eod" -> "EOD Market Close"
                             [] monExit' = "maxdur" ->
                                   MaxDurationReason(trade_max_hold_duration_minutes)))]_vars

C21_Witness ==
    /\ pc = "done"
    /\ monExit = "stop"
    /\ Len(trades_record) = 1
    /\ trades_record[1].ExitReason = "Stop Loss Triggered"
    /\ trades_record[1].ExitPrice = stop_price

C23_RepriceGuarded ==
    /\ [](/\ price_adjustment_count <= 2
          /\ Cardinality({i \in DOMAIN orders : orders[i].kind = "entry"}) <= 3
          /\ pc = "pt_poll" =>
                Cardinality({i \in DOMAIN orders : orders[i].kind = "entry"})
                    = 1 + price_adjustment_count)
    /\ [][/\ price_adjustment_count' > price_adjustment_count =>
                /\ pc = "pt_poll"
                /\ orders[trade].st = "Submitted"
                /\ elapsed + 1 >= 20
                /\ price_adjustment_count < 2
                /\ price_adjustment_count' = price_adjustment_count + 1
          /\ (pc = "pt_reprice" /\ Len(orders') > Len(orders)) =>
                /\ Len(orders') = Len(orders) + 1
                /\ elapsed' = 0]_vars

C23_Witness ==
    /\ pc = "pt_poll"
    /\ price_adjustment_count = 1
    /\ Len(orders) = 2
    /\ elapsed = 0
    /\ orders[2].price = RepricedLimit(action, orders[1].price, global_min_tick)

\* C24: a reprice computes the new limit price from the current one offset by
\* 0.1 % and quantized to the tick (a multiple of the tick, nearest to the
\* offset price), and the new price is higher than the previous limit price
\* for BUY and lower for SELL.
C24_RepriceImprovesPrice ==
    [][(pc = "pt_poll" /\ price_adjustment_count' = price_adjustment_count + 1) =>
          (/\ limit_price' % global_min_tick = 0
           /\ IF action = "BUY"
              THEN /\ 2 * Abs(1000 * limit_price' - 1001 * limit_price)
                        <= 1000 * global_min_tick
                   /\ limit_price' > limit_price
              ELSE /\ 2 * Abs(1000 * limit_price' - 999 * limit_price)
                        <= 1000 * global_min_tick
                   /\ limit_price' < limit_price)]_vars

\* C25: a poll of place_trade that observes Filled ends the executor with
\* success, carrying the average fill price reported for the order (the fill
\* timestamp is taken at the return); a poll that observes Cancelled,
\* ApiCancelled or Inactive ends it with failure; in both cases the executor
\* submits no order and requests no cancel at or after that poll.
C25_TerminalPollEndsExecutor ==
    [][/\ (pc = "pt_poll" /\ pc' = "entry_ret" /\ ptExit' = "filled") =>
              (/\ orders[trade].st = "Filled"
               /\ fill_price' \in FillPrices(orders[trade])
               /\ fill_price' # 0
               /\ orders' = orders)
       /\ (/\ pc = "pt_poll"
           /\ orders[trade].st \in {"Filled", "Cancelled", "Inactive"}
           /\ orders' = orders
           /\ ptExit' # "exception") =>
              (/\ pc' = "entry_ret"
               /\ ptExit' = IF orders[trade].st = "Filled" THEN "filled" ELSE "terminal"
               /\ orders[trade].st # "Filled" => fill_price' = fill_price)
       /\ (pc = "entry_ret" /\ ptExit \in {"filled", "terminal"}) =>
              (/\ Len(orders') = Len(orders)
               /\ \A i \in DOMAIN orders : orders'[i].creq <= orders[i].creq
               /\ pc' # pc =>
                     /\ fill_price' = fill_price
                     /\ pc' = IF ptExit = "filled" THEN "sl_cao1" ELSE "cleanup")]_vars

C25_Witness ==
    /\ pc = "entry_ret"
    /\ ptExit = "filled"
    /\ orders[trade].st = "Filled"
    /\ fill_price \in FillPrices(orders[trade])
    /\ price_adjustment_count = 1

\* C26: one invocation of place_stoploss_order performs the PendingSubmit
\* cancel-and-resubmit at most once: the retry is taken only while the first
\* stop is the only one submitted, and at most two stop orders are submitted.
C26_StopRetriedAtMostOnce ==
    /\ [](Cardinality({i \in DOMAIN orders : orders[i].kind = "stop"}) <= 2)
    /\ [][(pc = "sl_poll" /\ pc' = "sl_retry") =>
              (/\ Cardinality({i \in DOMAIN orders : orders[i].kind = "stop"}) = 1
               /\ orders[sl_trade].creq = 0)]_vars

C26_Witness ==
    /\ pc = "sl_poll"
    /\ sl_i = StopPollAttempts - 1
    /\ Cardinality({i \in DOMAIN orders : orders[i].kind = "stop"}) = 2
    /\ orders[sl_trade].st = "PendingSubmit"
    /\ orders[new_trade].st = "PendingSubmit"

\* C27: the stop resubmitted by the PendingSubmit retry differs from the
\* original quantized stop price by exactly one tick of the instrument, upward
\* for a BUY stop and downward for a SELL stop, whatever the tick size.
C27_RetryNudgesOneTick ==
    [][(pc = "sl_retry" /\ Len(orders') > Len(orders)) =>
          (orders'[Len(orders')].price =
              IF orders'[Len(orders')].act = "BUY" THEN sl_price + global_min_tick
                                                   ELSE sl_price - global_min_tick)]_vars

\* C28: a run holds at most one market close order; an invocation of
\* close_position_at_market that gets to its submission places exactly one,
\* on the side opposite to the entry and for the entry quantity; the monitor
\* enters the close from its policy check only, while no close was attempted;
\* when the order is not seen Filled within the polls the function returns
\* failure and nothing is submitted afterwards.
C28_OneCloseAttempt ==
    /\ [](/\ Cardinality({i \in DOMAIN orders : orders[i].kind = "mkt"}) <= 1
          /\ \A i \in DOMAIN orders : (orders[i].kind = "mkt") =>
                 (/\ orders[i].act # action
                  /\ orders[i].act \in {"BUY", "SELL"}
                  /\ orders[i].qty = qty)
          /\ (clExit \in {"filled", "unfilled"}) =>
                 (Cardinality({i \in DOMAIN orders : orders[i].kind = "mkt"}) = 1)
          /\ (pc = "cl_poll") =>
                 (Cardinality({i \in DOMAIN orders : orders[i].kind = "mkt"}) = 1))
    /\ [][/\ (pc' = "cl_cancel" /\ pc # "cl_cancel") =>
                (/\ pc = "mon_policy"
                 /\ clExit = "none"
                 /\ \A i \in DOMAIN orders : orders[i].kind # "mkt")
          /\ (pc = "cl_poll" /\ pc' # "cl_poll" /\ orders[cl_trade].st # "Filled"
                  /\ clExit' # "exception" /\ monExit' # "interrupt") =>
                (/\ cl_attempt' = ClosePollAttempts
                 /\ clExit' = "unfilled")
          /\ (clExit = "unfilled") =>
                (/\ Len(orders') = Len(orders)
                 /\ pc' \notin {"cl_cancel", "cl_submit", "cl_poll"}
                 /\ clExit' = "unfilled")]_vars

C28_Witness ==
    /\ clExit = "unfilled"
    /\ cl_attempt = ClosePollAttempts
    /\ \E i \in DOMAIN orders : orders[i].kind = "mkt" /\ IsLive(orders[i])
    /\ pos # 0

\* C29: when the market close is seen Filled, the profit and loss is
\* (exit - entry) * qty for a BUY entry and (entry - exit) * qty for a SELL
\* entry (the record holds it rounded to cents), the recorded Result is
\* Profit iff it is positive, Loss iff negative, Breakeven iff zero, and the
\* recorded ExitReason is the reason string the monitor passed to the close.
C29_CloseBookkeeping ==
    [][(pc = "cl_poll" /\ clExit' = "filled") =>
          (LET r == trades_record'[1]
               pnl == IF action = "BUY" THEN (r.ExitPrice - fill_price) * qty
                                        ELSE (fill_price - r.ExitPrice) * qty
           IN  /\ r.ExitPrice \in FillPrices(orders[cl_trade])
               /\ r.PnL % 10 = 0
               /\ 2 * Abs(r.PnL - pnl) <= 10
               /\ (r.Result = "Profit") <=> (pnl > 0)
               /\ (r.Result = "Loss") <=> (pnl < 0)
               /\ (r.Result = "Breakeven") <=> (pnl = 0)
               /\ r.ExitReason = exit_reason
               /\ exit_reason =
                     (IF trade_exit_strategy = "EOD" THEN "EOD Market Close"
                      ELSE MaxDurationReason(trade_max_hold_duration_minutes)))]_vars

C29_Witness ==
    /\ clExit = "filled"
    /\ action = "SELL"
    /\ Len(trades_record) = 1
    /\ trades_record[1].Result = "Breakeven"
    /\ trades_record[1].PnL = 0
    /\ trades_record[1].ExitPrice = fill_price
    /\ trades_record[1].ExitReason = "EOD Market Close"

\* C30: a wake of the monitor that takes no exit transition submits no order
\* and requests no cancel: orders, position and trade record are as before
\* the wake; a status refresh that reads a price at or beyond the stop level
\* logs the warning and changes nothing else of these.
C30_MonitoringWakeIsPassive ==
    [][/\ (pc \in {"mon_policy", "mon_check"} /\ pc' \in {"mon_policy", "mon_check"}
            /\ pc' # pc) =>
              (/\ orders' = orders
               /\ pos' = pos
               /\ trades_record' = trades_record
               /\ monExit' = "none"
               /\ exit_reason' = "")
       /\ (pc = "mon_check" /\ pc' = "mon_policy") =>
              (/\ pos # 0
               /\ stop_warning' =
                     (/\ now - last_update_time >= 60
                      /\ current_market_price' > 0
                      /\ IF action = "BUY" THEN current_market_price' <= stop_price
                                           ELSE current_market_price' >= stop_price))]_vars

C30_Witness ==
    /\ pc = "mon_policy"
    /\ stop_warning
    /\ current_market_price = stop_price
    /\ pos # 0
    /\ \E i \in DOMAIN orders : orders[i].kind = "stop" /\ IsLive(orders[i])
    /\ trades_record[1].ExitReason = ""

\* C31: cancel_all_orders issues no cancel call for an order that is no longer
\* live (every order of the run has a positive id), and an invocation that
\* finds every order terminal issues no cancel call and changes no order.
C31_CancelAllSkipsDoneOrders ==
    /\ [](done_cancels = 0)
    /\ [][(/\ pc \in {"pt_cao1", "pt_cao2", "sl_cao1", "sl_cao2", "xau_cao1", "xau_cao2"}
           /\ pc' # pc
           /\ \A i \in DOMAIN orders : ~IsLive(orders[i])) =>
              (orders' = orders /\ done_cancels' = done_cancels)]_vars

\* C32: the price of every entry limit, repriced limit, stop and retried stop
\* order is an integer multiple of the tick size of the instrument and is the
\* multiple nearest to the unquantized price it was computed from (the signal
\* close, the limit moved by 0.1 %, the clamped stop, the stop moved by 0.01).
C32_OrderPricesOnTick ==
    /\ [](\A i \in DOMAIN orders :
             (orders[i].kind \in {"entry", "stop"}) =>
                 (orders[i].price % global_min_tick = 0))
    /\ [][/\ (pc = "pt_submit" /\ Len(orders') > Len(orders)) =>
                (2 * Abs(orders'[Len(orders')].price - bar.close) <= global_min_tick)
          /\ (pc = "pt_poll" /\ limit_price' # limit_price) =>
                (2 * Abs(1000 * limit_price'
                         - (IF action = "BUY" THEN 1001 ELSE 999) * limit_price)
                     <= 1000 * global_min_tick)
          /\ (pc = "pt_reprice" /\ Len(orders') > Len(orders)) =>
                (orders'[Len(orders')].price = limit_price)
          /\ (pc = "sl_submit" /\ Len(orders') > Len(orders)) =>
                (2 * Abs(1000 * orders'[Len(orders')].price
                         - (IF action = "SELL"
                            THEN Max(1000 * stop_price, 1001 * fill_price)
                            ELSE Min(1000 * stop_price, 999 * fill_price)))
                     <= 1000 * global_min_tick)
          /\ (pc = "sl_retry" /\ Len(orders') > Len(orders)) =>
                (2 * Abs(orders'[Len(orders')].price
                         - (IF action = "SELL" THEN sl_price + 10 ELSE sl_price - 10))
                     <= global_min_tick)]_vars

C32_Witness ==
    /\ global_min_tick = 250
    /\ Cardinality({i \in DOMAIN orders : orders[i].kind = "entry"}) = 2
    /\ Cardinality({i \in DOMAIN orders : orders[i].kind = "stop"}) = 2
    /\ \A i \in DOMAIN orders : orders[i].price % 250 = 0

\* C33: whenever place_trade has returned failure (timeout, a cancelled or
\* inactive order, an exception) the broker holds no position from the entry
\* orders of the run, at the return and until the process has terminated.
C33_FailedEntryLeavesNoPosition ==
    /\ (pc = "entry_ret" /\ ptExit \in {"timeout", "terminal", "exception"}) => pos = 0
    /\ (pc \in {"cleanup", "final_report", "done"} /\ trades_record = <<>>) => pos = 0

\* C34: a policy close never leaves a position in the direction opposite to
\* the entry: once a market close order exists, the holding is never short
\* after a BUY entry and never long after a SELL entry, also when the
\* protective stop fills before the close order does.
C34_CloseNeverReverses ==
    (\E i \in DOMAIN orders : orders[i].kind = "mkt") =>
        (IF action = "BUY" THEN pos >= 0 ELSE pos <= 0)

\* C35: when the process has terminated after an entry fill, the holding in
\* the instrument is zero or a protective stop order is still live at the
\* broker for it.
C35_FlatOrProtectedAtExit ==
    (pc = "done" /\ trades_record # <<>>) => (pos = 0 \/ LiveOf("stop") # {})

\* C36: the stop price stored in the trade record and handed to the monitor
\* equals the price of every protective stop order live at the broker, also
\* after place_stoploss_order has clamped the price or nudged it on retry.
C36_RecordedStopIsLiveStop ==
    trades_record # <<>> =>
        /\ trades_record[1].StopLoss = stop_price
        /\ \A i \in LiveOf("stop") : orders[i].price = trades_record[1].StopLoss

\* C37: the quantity filled over all entry orders of the run, the original
\* and the repriced ones, never exceeds the sized quantity.
C37_EntryFillsWithinSize ==
    /\ Cardinality({i \in DOMAIN orders :
                       orders[i].kind = "entry" /\ orders[i].st = "Filled"}) <= 1
    /\ \A i \in DOMAIN orders :
          (orders[i].kind = "entry" /\ orders[i].st = "Filled") => orders[i].qty <= qty

C39_RepricedOrderIsPolled ==
    [][/\ (pc = "pt_reprice" /\ Len(orders') > Len(orders)) => (pc' = "pt_poll")
       /\ (pc = "pt_poll" /\ pc' = "pt_reprice") => (attempt + 1 < max_attempts)]_vars

====
